---- MODULE Spec2Model ----
(***************************************************************************)
(* TitanState: patch engine (packages/worker/src/patch.ts), persistence    *)
(* pipeline (packages/persist), event log and state reconstructor          *)
(* (packages/devtools), the memory driver (packages/persist) and the      *)
(* store with its scheduler and subscriptions (packages/core).            *)
(*                                                                         *)
(* JavaScript strings are sequences of one-character strings, so escaping, *)
(* splitting, prefixes and key construction are computed, not assumed.     *)
(***************************************************************************)
EXTENDS Integers, Sequences, FiniteSets, TLC

VARIABLES
  ppc, oldObj, newObj, patches, patched,          \* patch engine run
  fn,                                             \* one call of a function of a library module
  storage, hasStream, calls, doneOrder, hyd,      \* driver, runtime, persistAtom calls, hydrateAtom call
  atom, store, getCall,                           \* store: one atom, the store, one getAsync call
  logConfig, events, sequenceNumber, snapshots,   \* EventLog
  logCalls, issued, disturbed,                   \* log calls in flight, history of the log calls
  recon,                                          \* result of reconstruct on the log as it is
  updateQueue, isScheduled, microtasks,           \* Scheduler, flush microtasks queued
  subscriptions, round, txn,                      \* SubscriptionManager, notify in progress, transaction call
  heard                                           \* history of the listener calls

patchVars == <<ppc, oldObj, newObj, patches, patched, fn>>
persistVars == <<storage, hasStream, calls, doneOrder, hyd>>
storeVars == <<atom, store, getCall>>
logVars == <<logConfig, events, sequenceNumber, snapshots, logCalls, issued, disturbed, recon>>
notifyVars == <<updateQueue, isScheduled, microtasks, subscriptions, round, txn, heard>>
vars == <<patchVars, persistVars, storeVars, logVars, notifyVars>>

(***************************************************************************)
(* Bounds of the model.                                                    *)
(***************************************************************************)
MaxNodes == 5
MaxArrayLen == 3
MaxCalls == 2
MaxThreshold == 1
MaxLog == 3
MaxReplay == 3
MaxInFlight == 2
MaxInterval == 2
MaxRetain == 2

(***************************************************************************)
(* Strings.                                                                *)
(***************************************************************************)
Digits == <<"0", "1", "2", "3", "4", "5", "6", "7", "8", "9">>

IsDigit(c) == \E i \in 1..10 : Digits[i] = c

DigitVal(c) == (CHOOSE i \in 1..10 : Digits[i] = c) - 1

RECURSIVE NatToStr(_)
\* String(n) for a non-negative integer
NatToStr(n) == IF n < 10 THEN <<Digits[n + 1]>>
               ELSE NatToStr(n \div 10) \o <<Digits[(n % 10) + 1]>>

RECURSIVE StrToNat(_)
\* the value of a string of decimal digits (0 for the empty string, as Number(""))
StrToNat(s) == IF s = <<>> THEN 0
               ELSE 10 * StrToNat(SubSeq(s, 1, Len(s) - 1)) + DigitVal(s[Len(s)])

AllDigits(s) == \A i \in 1..Len(s) : IsDigit(s[i])

NaN == -1

\* Number(s): NaN unless s is a (possibly empty, possibly zero-padded) digit string.
\* The alphabet of the model holds no sign, point, exponent or blank.
ToNumber(s) == IF AllDigits(s) THEN StrToNat(s) ELSE NaN

\* !isNaN(Number(s)) && String(Number(s)) === s
IsCanonicalNumber(s) == ToNumber(s) # NaN /\ NatToStr(ToNumber(s)) = s

RECURSIVE ReplaceChar(_, _, _)
\* s.replace(/c/g, to) for a one-character pattern c
ReplaceChar(s, c, to) ==
  IF s = <<>> THEN <<>>
  ELSE (IF Head(s) = c THEN to ELSE <<Head(s)>>) \o ReplaceChar(Tail(s), c, to)

RECURSIVE ReplacePair(_, _, _, _)
\* s.replace(/c1c2/g, to) for a two-character pattern, leftmost first, not overlapping
ReplacePair(s, c1, c2, to) ==
  IF Len(s) < 2 THEN s
  ELSE IF s[1] = c1 /\ s[2] = c2
       THEN to \o ReplacePair(SubSeq(s, 3, Len(s)), c1, c2, to)
       ELSE <<s[1]>> \o ReplacePair(Tail(s), c1, c2, to)

escapePath(s) == ReplaceChar(ReplaceChar(s, "~", <<"~", "0">>), "/", <<"~", "1">>)

unescapePath(s) == ReplacePair(ReplacePair(s, "~", "1", <<"/">>), "~", "0", <<"~">>)

RECURSIVE Split(_, _)
\* s.split(c): the pieces between the occurrences of c (one piece when there is none)
Split(s, c) ==
  IF \A i \in 1..Len(s) : s[i] # c THEN <<s>>
  ELSE LET i == CHOOSE j \in 1..Len(s) : s[j] = c /\ \A k \in 1..(j - 1) : s[k] # c
       IN <<SubSeq(s, 1, i - 1)>> \o Split(SubSeq(s, i + 1, Len(s)), c)

StartsWith(s, prefix) ==
  Len(s) >= Len(prefix) /\ SubSeq(s, 1, Len(prefix)) = prefix

(***************************************************************************)
(* Paths. A segment is a number or a string.                               *)
(***************************************************************************)
NumSeg(n) == [k |-> "n", n |-> n]
StrSeg(s) == [k |-> "s", s |-> s]

\* String(segment)
SegString(seg) == IF seg.k = "n" THEN NatToStr(seg.n) ELSE seg.s

\* typeof segment === 'number' ? segment : Number(segment)
SegIndex(seg) == IF seg.k = "n" THEN seg.n ELSE ToNumber(seg.s)

RECURSIVE JoinEscaped(_)
JoinEscaped(path) ==
  IF path = <<>> THEN <<>>
  ELSE <<"/">> \o escapePath(SegString(Head(path))) \o JoinEscaped(Tail(path))

pathToString(path) == IF Len(path) = 0 THEN <<>> ELSE JoinEscaped(path)

stringToPath(str) ==
  IF str = <<>> \/ str = <<"/">> THEN <<>>
  ELSE LET segments == Tail(Split(str, "/"))
       IN [i \in 1..Len(segments) |->
             LET unescaped == unescapePath(segments[i])
             IN IF IsCanonicalNumber(unescaped) THEN NumSeg(ToNumber(unescaped))
                ELSE StrSeg(unescaped)]

(***************************************************************************)
(* JavaScript values: undefined, null, numbers, arrays, plain objects and  *)
(* byte buffers (ArrayBuffer).                                             *)
(* An object keeps its keys in the order Object.keys lists them: integer   *)
(* keys ascending, then the other keys in insertion order.                 *)
(***************************************************************************)
Undefined == [t |-> "undef"]
Null == [t |-> "null"]
Num(n) == [t |-> "num", n |-> n]
Arr(items) == [t |-> "arr", items |-> items]
Obj(keys, vals) == [t |-> "obj", keys |-> keys, vals |-> vals]
Buf(bytes) == [t |-> "buf", bytes |-> bytes]
Thrown == [t |-> "error"]

IsArray(v) == v.t = "arr"
IsObject(v) == v.t = "obj"
IsNullish(v) == v.t \in {"null", "undef"}
IsBuf(v) == v.t = "buf"
\* typeof v === 'object' && v !== null && !Array.isArray(v)
IsObjectLike(v) == v.t \in {"obj", "buf"}
\* { ...v }: a byte buffer has no own enumerable property
Spread(v) == IF IsObject(v) THEN v ELSE Obj(<<>>, <<>>)

TypeOf(v) == CASE v.t = "undef" -> "undefined"
               [] v.t = "num" -> "number"
               [] OTHER -> "object"

ObjectIs_never(x, y) == FALSE

\* Object.is: equal primitives; two containers are separate objects
ObjectIs(x, y) == x = y /\ x.t \in {"undef", "null", "num"}

ObjHas(o, key) == \E i \in 1..Len(o.keys) : o.keys[i] = key

ObjGet(o, key) == IF ObjHas(o, key)
                  THEN o.vals[CHOOSE i \in 1..Len(o.keys) : o.keys[i] = key]
                  ELSE Undefined

InsertAt(s, pos, x) == SubSeq(s, 1, pos - 1) \o <<x>> \o SubSeq(s, pos, Len(s))

RemoveAt(s, pos) == SubSeq(s, 1, pos - 1) \o SubSeq(s, pos + 1, Len(s))

\* o[key] = v on a copy of o
ObjPut(o, key, v) ==
  IF ObjHas(o, key)
  THEN LET i == CHOOSE j \in 1..Len(o.keys) : o.keys[j] = key
       IN Obj(o.keys, [o.vals EXCEPT ![i] = v])
  ELSE LET pos == IF IsCanonicalNumber(key)
                  THEN 1 + Cardinality({j \in 1..Len(o.keys) :
                                          /\ IsCanonicalNumber(o.keys[j])
                                          /\ ToNumber(o.keys[j]) < ToNumber(key)})
                  ELSE Len(o.keys) + 1
       IN Obj(InsertAt(o.keys, pos, key), InsertAt(o.vals, pos, v))

\* delete o[key] on a copy of o
ObjDelete(o, key) ==
  IF ObjHas(o, key)
  THEN LET i == CHOOSE j \in 1..Len(o.keys) : o.keys[j] = key
       IN Obj(RemoveAt(o.keys, i), RemoveAt(o.vals, i))
  ELSE o

\* array[index]: undefined out of range and for NaN
ArrGet(items, index) == IF index >= 0 /\ index < Len(items) THEN items[index + 1]
                        ELSE Undefined

\* array[index] = v on a copy: assigning past the end pads the array, assigning
\* at NaN sets a property that is no element
ArrAssign(items, index, v) ==
  IF index < 0 THEN items
  ELSE IF index < Len(items) THEN [items EXCEPT ![index + 1] = v]
  ELSE items \o [i \in 1..(index - Len(items)) |-> Undefined] \o <<v>>

\* array.splice(start, deleteCount, ...ins) on a copy
ArrSplice(items, start, deleteCount, ins) ==
  LET from == IF start < 0 THEN 0 ELSE IF start > Len(items) THEN Len(items) ELSE start
      cnt == IF deleteCount < 0 THEN 0
             ELSE IF deleteCount > Len(items) - from THEN Len(items) - from
             ELSE deleteCount
  IN SubSeq(items, 1, from) \o ins \o SubSeq(items, from + cnt + 1, Len(items))

\* Object.keys
ObjectKeys(v) == IF IsArray(v) THEN [i \in 1..Len(v.items) |-> NatToStr(i - 1)]
                 ELSE IF IsObject(v) THEN v.keys
                 ELSE <<>>

\* v[key] for a string key
PropGet(v, key) ==
  IF IsArray(v) THEN (IF IsCanonicalNumber(key) THEN ArrGet(v.items, ToNumber(key))
                      ELSE Undefined)
  ELSE IF IsObject(v) THEN ObjGet(v, key)
  ELSE Undefined

RECURSIVE DeepEqual(_, _)
\* structural equality: arrays by position, objects by key whatever the key order
DeepEqual(x, y) ==
  IF x.t # y.t THEN FALSE
  ELSE IF IsArray(x)
       THEN /\ Len(x.items) = Len(y.items)
            /\ \A i \in 1..Len(x.items) : DeepEqual(x.items[i], y.items[i])
  ELSE IF IsObject(x)
       THEN /\ Len(x.keys) = Len(y.keys)
            /\ \A i \in 1..Len(x.keys) :
                 ObjHas(y, x.keys[i]) /\ DeepEqual(x.vals[i], ObjGet(y, x.keys[i]))
  ELSE x = y

RECURSIVE getValueAtPath(_, _)
getValueAtPath(obj, path) ==
  IF path = <<>> THEN obj
  ELSE IF IsNullish(obj) THEN Undefined
  ELSE IF IsObject(obj) THEN getValueAtPath(ObjGet(obj, SegString(Head(path))), Tail(path))
  ELSE IF IsArray(obj)
       THEN LET index == SegIndex(Head(path))
            IN IF index = NaN \/ index < 0 \/ index >= Len(obj.items) THEN Undefined
               ELSE getValueAtPath(obj.items[index + 1], Tail(path))
  ELSE Undefined

RECURSIVE setValueAtPath(_, _, _)
setValueAtPath(obj, path, value) ==
  IF Len(path) = 0 THEN value
  ELSE LET head == Head(path)
           tail == Tail(path)
           index == SegIndex(head)
       IN IF IsArray(obj)
          THEN IF Len(tail) = 0
               THEN IF index >= 0 /\ index < Len(obj.items)
                    THEN Arr([obj.items EXCEPT ![index + 1] = value])
                    ELSE IF index = Len(obj.items) THEN Arr(Append(obj.items, value))
                    ELSE obj
               ELSE Arr(ArrAssign(obj.items, index,
                                  setValueAtPath(ArrGet(obj.items, index), tail, value)))
          ELSE IF IsObjectLike(obj)
          THEN IF Len(tail) = 0
               THEN ObjPut(Spread(obj), SegString(head), value)
               ELSE ObjPut(Spread(obj), SegString(head),
                           setValueAtPath(ObjGet(Spread(obj), SegString(head)), tail, value))
          ELSE IF head.k = "n" \/ (index # NaN /\ Len(tail) > 0)
               THEN Arr(ArrAssign(<<>>, index, setValueAtPath(Undefined, tail, value)))
               ELSE ObjPut(Obj(<<>>, <<>>), SegString(head),
                           setValueAtPath(Undefined, tail, value))

RECURSIVE deleteValueAtPath(_, _)
deleteValueAtPath(obj, path) ==
  IF Len(path) = 0 THEN Undefined
  ELSE LET head == Head(path)
           tail == Tail(path)
           index == SegIndex(head)
       IN IF IsArray(obj)
          THEN IF Len(tail) = 0
               THEN Arr(ArrSplice(obj.items, index, 1, <<>>))
               ELSE Arr(ArrAssign(obj.items, index,
                                  deleteValueAtPath(ArrGet(obj.items, index), tail)))
          ELSE IF IsObjectLike(obj)
          THEN IF Len(tail) = 0
               THEN ObjDelete(Spread(obj), SegString(head))
               ELSE ObjPut(Spread(obj), SegString(head),
                           deleteValueAtPath(ObjGet(Spread(obj), SegString(head)), tail))
          ELSE obj

(***************************************************************************)
(* Patch operations.                                                       *)
(***************************************************************************)
SetOp(path, value) == [op |-> "set", path |-> path, value |-> value]
DeleteOp(path) == [op |-> "delete", path |-> path]
SpliceOp(path, deleteCount, items) ==
  [op |-> "splice", path |-> path, deleteCount |-> deleteCount, items |-> items]
BinaryChunkOp(path, offset, data) ==
  [op |-> "binary-chunk", path |-> path, offset |-> offset, data |-> data]

ViewSet_shifted(bytes, chunk, offset) ==
  IF offset < 0 \/ offset + Len(chunk) > Len(bytes) THEN Thrown
  ELSE Buf([i \in 1..Len(bytes) |->
              IF i >= offset /\ i < offset + Len(chunk) /\ i >= 1 THEN chunk[i - offset + 1]
              ELSE bytes[i]])

\* view.set(chunk, offset) on a copy of the buffer: a RangeError when the chunk
\* does not fit
ViewSet(bytes, chunk, offset) ==
  IF offset < 0 \/ offset + Len(chunk) > Len(bytes) THEN Thrown
  ELSE Buf([i \in 1..Len(bytes) |->
              IF i > offset /\ i <= offset + Len(chunk) THEN chunk[i - offset]
              ELSE bytes[i]])

applyPatch(obj, patch) ==
  LET path == stringToPath(patch.path)
  IN CASE patch.op = "set" -> setValueAtPath(obj, path, patch.value)
       [] patch.op = "delete" -> deleteValueAtPath(obj, path)
       [] patch.op = "splice" ->
            IF ~IsArray(obj) THEN Thrown
            ELSE LET arrayPath == SubSeq(path, 1, Len(path) - 1)
                     array == getValueAtPath(obj, arrayPath)
                     idx == IF path = <<>> THEN NaN ELSE SegIndex(path[Len(path)])
                 IN IF ~IsArray(array) THEN Thrown
                    ELSE setValueAtPath(obj, arrayPath,
                           Arr(ArrSplice(array.items, idx, patch.deleteCount, patch.items)))
       [] patch.op = "binary-chunk" ->
            LET current == getValueAtPath(obj, path)
            IN IF IsBuf(current)
               THEN LET newBuffer == ViewSet(current.bytes, patch.data, patch.offset)
                    IN IF newBuffer = Thrown THEN Thrown
                       ELSE setValueAtPath(obj, path, newBuffer)
               ELSE Thrown
       [] OTHER -> Thrown

RECURSIVE applyPatches_partial(_, _)
applyPatches_partial(obj, ps) ==
  IF ps = <<>> THEN obj
  ELSE LET result == applyPatch(obj, Head(ps))
       IN IF result = Thrown THEN obj ELSE applyPatches_partial(result, Tail(ps))

RECURSIVE applyPatches(_, _)
\* the loop of applyPatches: a throwing op ends the call
applyPatches(obj, ps) ==
  IF ps = <<>> THEN obj
  ELSE LET result == applyPatch(obj, Head(ps))
       IN IF result = Thrown THEN Thrown ELSE applyPatches(result, Tail(ps))

RECURSIVE generatePatches(_, _, _)
generatePatches(old, new, basePath) ==
  IF ObjectIs(old, new) THEN <<>>
  ELSE IF IsNullish(old) # IsNullish(new) THEN <<SetOp(pathToString(basePath), new)>>
  ELSE IF TypeOf(old) # TypeOf(new) THEN <<SetOp(pathToString(basePath), new)>>
  ELSE IF IsArray(old) /\ IsArray(new)
  THEN LET maxLength == IF Len(old.items) > Len(new.items) THEN Len(old.items)
                        ELSE Len(new.items)
           at[i \in 0..maxLength] ==
             \* the ops the loop pushes for the indices i..maxLength-1
             IF i = maxLength THEN <<>>
             ELSE (IF i >= Len(old.items)
                   THEN <<SetOp(pathToString(Append(basePath, NumSeg(i))), new.items[i + 1])>>
                   ELSE IF i >= Len(new.items)
                   THEN <<DeleteOp(pathToString(Append(basePath, NumSeg(i))))>>
                   ELSE generatePatches(old.items[i + 1], new.items[i + 1],
                                        Append(basePath, NumSeg(i))))
                  \o at[i + 1]
       IN at[0]
  ELSE IF TypeOf(old) = "object" /\ ~IsNullish(old) /\ TypeOf(new) = "object" /\ ~IsNullish(new)
  THEN LET oldKeys == ObjectKeys(old)
           newKeys == ObjectKeys(new)
           InOld(key) == \E j \in 1..Len(oldKeys) : oldKeys[j] = key
           InNew(key) == \E j \in 1..Len(newKeys) : newKeys[j] = key
           deleted[i \in 1..(Len(oldKeys) + 1)] ==
             IF i > Len(oldKeys) THEN <<>>
             ELSE (IF ~InNew(oldKeys[i])
                   THEN <<DeleteOp(pathToString(Append(basePath, StrSeg(oldKeys[i]))))>>
                   ELSE <<>>)
                  \o deleted[i + 1]
           added[i \in 1..(Len(newKeys) + 1)] ==
             IF i > Len(newKeys) THEN <<>>
             ELSE (IF ~InOld(newKeys[i])
                   THEN <<SetOp(pathToString(Append(basePath, StrSeg(newKeys[i]))),
                                PropGet(new, newKeys[i]))>>
                   ELSE generatePatches(PropGet(old, newKeys[i]), PropGet(new, newKeys[i]),
                                        Append(basePath, StrSeg(newKeys[i]))))
                  \o added[i + 1]
       IN deleted[1] \o added[1]
  ELSE <<SetOp(pathToString(basePath), new)>>

(***************************************************************************)
(* The tree-shaped values the patch engine is run on: every value of at    *)
(* most MaxNodes nodes over these leaves and keys.                         *)
(***************************************************************************)
Leaves == {Null, Num(1), Num(2)}
KeyOrder == << <<"0">>, <<"a">> >>

RECURSIVE ValuesOfSize(_), SeqsOfTotal(_, _)
ValuesOfSize(n) ==
  IF n = 1 THEN Leaves \cup {Arr(<<>>), Obj(<<>>, <<>>)}
  ELSE {Arr(s) : s \in UNION {SeqsOfTotal(len, n - 1) : len \in 1..MaxArrayLen}}
       \cup {Obj(<<KeyOrder[i]>>, s) : i \in 1..Len(KeyOrder), s \in SeqsOfTotal(1, n - 1)}
       \cup {Obj(KeyOrder, s) : s \in SeqsOfTotal(Len(KeyOrder), n - 1)}
SeqsOfTotal(len, total) ==
  IF len = 0 THEN (IF total = 0 THEN {<<>>} ELSE {})
  ELSE UNION {{<<v>> \o rest : v \in ValuesOfSize(k), rest \in SeqsOfTotal(len - 1, total - k)} :
                k \in 1..(total - (len - 1))}

PatchInputs ==
  UNION {UNION {ValuesOfSize(m) \X ValuesOfSize(n) : n \in 1..(MaxNodes - m)} :
           m \in 1..(MaxNodes - 1)}

(***************************************************************************)
(* Patch engine run: diff two values, then apply the ops to the old one.   *)
(***************************************************************************)
\* no function call is followed
NoCall == [name |-> "", pc |-> "off"]

PatchInit ==
  /\ ppc = "input"
  /\ \E io \in PatchInputs : oldObj = io[1] /\ newObj = io[2]
  /\ patches = <<>>
  /\ patched = Undefined
  /\ fn = NoCall

EngineIdle ==
  /\ ppc = "off"
  /\ oldObj = Undefined
  /\ newObj = Undefined
  /\ patches = <<>>
  /\ patched = Undefined

PatchIdle == EngineIdle /\ fn = NoCall

GeneratePatches ==
  /\ ppc = "input"
  /\ patches' = generatePatches(oldObj, newObj, <<>>)
  /\ ppc' = "diffed"
  /\ UNCHANGED <<oldObj, newObj, patched, fn>>

ApplyPatches ==
  /\ ppc = "diffed"
  /\ patched' = applyPatches(oldObj, patches)
  /\ ppc' = "applied"
  /\ UNCHANGED <<oldObj, newObj, patches, fn>>

PatchRest == UNCHANGED <<persistVars, storeVars, logVars, notifyVars>>

PatchNext ==
  \/ GeneratePatches /\ PatchRest
  \/ ApplyPatches /\ PatchRest

(***************************************************************************)
(* JSON text, byte buffers, compression and chunking.                      *)
(* A byte buffer (ArrayBuffer) holds the UTF-8 bytes of an ASCII text, one *)
(* character per byte.                                                     *)
(***************************************************************************)
RECURSIVE JsonStringify(_)
\* JSON.stringify: an ArrayBuffer has no enumerable property and is written "{}";
\* undefined inside an array is written null and is left out of an object
JsonStringify(v) ==
  CASE v.t = "null" -> <<"n", "u", "l", "l">>
    [] v.t = "num" -> NatToStr(v.n)
    [] v.t = "buf" -> <<"{", "}">>
    [] v.t = "arr" ->
         LET item(i) == IF v.items[i].t = "undef" THEN <<"n", "u", "l", "l">>
                        ELSE JsonStringify(v.items[i])
             from[i \in 1..(Len(v.items) + 1)] ==
               IF i > Len(v.items) THEN <<>>
               ELSE (IF i > 1 THEN <<",">> ELSE <<>>) \o item(i) \o from[i + 1]
         IN <<"[">> \o from[1] \o <<"]">>
    [] v.t = "obj" ->
         LET shown == SelectSeq([i \in 1..Len(v.keys) |-> i], LAMBDA i : v.vals[i].t # "undef")
             from[j \in 1..(Len(shown) + 1)] ==
               IF j > Len(shown) THEN <<>>
               ELSE (IF j > 1 THEN <<",">> ELSE <<>>)
                    \o <<"\"">> \o v.keys[shown[j]] \o <<"\"", ":">>
                    \o JsonStringify(v.vals[shown[j]]) \o from[j + 1]
         IN <<"{">> \o from[1] \o <<"}">>

\* the values the persistence pipeline is run on, by the length of their JSON text
PersistValues == {Num(1), Num(12), Arr(<<Num(1)>>)}

\* the values JSON.parse can return in the model: the persisted values, the
\* number an earlier driver.put stored and the empty object that the text of a
\* stored ArrayBuffer parses to
JsonValues == PersistValues \cup {Num(2), Obj(<<>>, <<>>), Null}

\* JSON.parse, as the inverse of JSON.stringify; Thrown on any other text
JsonParse(text) ==
  IF \E v \in JsonValues : JsonStringify(v) = text
  THEN CHOOSE v \in JsonValues : JsonStringify(v) = text
  ELSE Thrown

\* gzip/deflate through CompressionStream: a reversible transformation that
\* changes the bytes and their number (a one-byte header stands for the framing)
Deflate(bytes) == <<"Z">> \o bytes
\* what stands for the rejection of a stream that is fed other bytes
StreamError == <<"error">>

Inflate(bytes) == IF bytes # <<>> /\ Head(bytes) = "Z" THEN Tail(bytes) ELSE StreamError

\* compress(data, {algorithm}) on a runtime with or without CompressionStream
compress(bytes, algorithm, streams) ==
  IF algorithm = "none" THEN bytes
  ELSE IF streams /\ algorithm \in {"gzip", "deflate"} THEN Deflate(bytes)
  ELSE bytes

\* decompress(data, {algorithm}); StreamError when the stream rejects the bytes
decompress(bytes, algorithm, streams) ==
  IF algorithm = "none" THEN bytes
  ELSE IF streams /\ algorithm \in {"gzip", "deflate"} THEN Inflate(bytes)
  ELSE bytes

RECURSIVE ChunksFrom(_, _, _)
ChunksFrom(bytes, chunkSize, i) ==
  IF i >= Len(bytes) THEN <<>>
  ELSE LET upto == IF i + chunkSize > Len(bytes) THEN Len(bytes) ELSE i + chunkSize
       IN <<[index |-> i \div chunkSize, data |-> SubSeq(bytes, i + 1, upto)]>>
          \o ChunksFrom(bytes, chunkSize, i + chunkSize)

chunkData(bytes, chunkSize) == ChunksFrom(bytes, chunkSize, 0)

RECURSIVE SortByIndex(_)
\* [...chunks].sort((a, b) => a.index - b.index), a stable sort
SortByIndex(chunks) ==
  IF chunks = <<>> THEN <<>>
  ELSE LET i == CHOOSE j \in 1..Len(chunks) :
                  /\ \A k \in 1..Len(chunks) : chunks[j].index <= chunks[k].index
                  /\ \A k \in 1..(j - 1) : chunks[k].index # chunks[j].index
       IN <<chunks[i]>> \o SortByIndex(RemoveAt(chunks, i))

RECURSIVE Concat(_)
Concat(chunks) == IF chunks = <<>> THEN <<>> ELSE Head(chunks).data \o Concat(Tail(chunks))

reconstructData_unsorted(chunks) == Concat(chunks)

reconstructData(chunks) == Concat(SortByIndex(chunks))

(***************************************************************************)
(* Storage keys.                                                           *)
(***************************************************************************)
ChunkMarker == <<":", "c", "h", "u", "n", "k", ":">>

\* String(index).padStart(6, '0')
PadStart6(digits) == [i \in 1..(6 - Len(digits)) |-> "0"] \o digits

getChunkKey(baseKey, index) == baseKey \o ChunkMarker \o PadStart6(NatToStr(index))

\* the order of the characters a key can hold, by character code
Alphabet == <<"0", "1", "2", "3", "4", "5", "6", "7", "8", "9", ":",
              "a", "c", "h", "k", "m", "n", "o", "t", "u">>

CharCode(c) == CHOOSE i \in 1..Len(Alphabet) : Alphabet[i] = c

RECURSIVE StrLess(_, _)
\* s < t as Array.prototype.sort compares strings
StrLess(s, u) ==
  IF u = <<>> THEN FALSE
  ELSE IF s = <<>> THEN TRUE
  ELSE IF Head(s) # Head(u) THEN CharCode(Head(s)) < CharCode(Head(u))
  ELSE StrLess(Tail(s), Tail(u))

RECURSIVE SortKeys(_)
SortKeys(keys) ==
  IF keys = {} THEN <<>>
  ELSE LET least == CHOOSE k \in keys : \A other \in keys \ {k} : StrLess(k, other)
       IN <<least>> \o SortKeys(keys \ {least})

\* getChunkKeys(baseKey, keys): the keys that start with baseKey:chunk:, sorted
getChunkKeys(baseKey, keys) ==
  SortKeys({key \in keys : StartsWith(key, baseKey \o ChunkMarker)})

\* chunkKey.match(/:chunk:(\d+)$/): parseInt of the digits, 0 without a match
ChunkIndexOf(chunkKey) ==
  LET n == Len(chunkKey)
      digitsFrom == CHOOSE i \in 1..(n + 1) :
                      /\ \A j \in i..n : IsDigit(chunkKey[j])
                      /\ (i = 1 \/ ~IsDigit(chunkKey[i - 1]))
      before == SubSeq(chunkKey, 1, digitsFrom - 1)
  IN IF /\ digitsFrom <= n
        /\ Len(before) >= Len(ChunkMarker)
        /\ SubSeq(before, Len(before) - Len(ChunkMarker) + 1, Len(before)) = ChunkMarker
     THEN StrToNat(SubSeq(chunkKey, digitsFrom, n))
     ELSE 0

\* a line terminator, which the . of a regular expression does not match
LineFeed == "\n"

\* parseChunkKey: chunkKey.match(/^(.+):chunk:(\d+)$/), null without a match, else
\* the text before the marker and parseInt of the digits after it
parseChunkKey(chunkKey) ==
  LET n == Len(chunkKey)
      digitsFrom == CHOOSE i \in 1..(n + 1) :
                      /\ \A j \in i..n : IsDigit(chunkKey[j])
                      /\ (i = 1 \/ ~IsDigit(chunkKey[i - 1]))
      before == SubSeq(chunkKey, 1, digitsFrom - 1)
      base == SubSeq(before, 1, Len(before) - Len(ChunkMarker))
  IN IF /\ digitsFrom <= n
        /\ Len(before) > Len(ChunkMarker)
        /\ SubSeq(before, Len(before) - Len(ChunkMarker) + 1, Len(before)) = ChunkMarker
        /\ \A j \in 1..Len(base) : base[j] # LineFeed
     THEN [baseKey |-> base, index |-> StrToNat(SubSeq(chunkKey, digitsFrom, n))]
     ELSE Null

(***************************************************************************)
(* Atoms. key is meta.key, the storage key; a missing key and a missing    *)
(* size are NoKey and NoSize.                                              *)
(***************************************************************************)
NoKey == <<>>
NoSize == -1

AtomId == <<"a">>

\* `atom:${key}`
StorageKey(id) == <<"a", "t", "o", "m", ":">> \o id

\* Date.now(): the wall clock is not modelled, every time read from it is DateNow
DateNow == [t |-> "time"]

\* createAtom(key, initial, {persisted, lazyLoad})
createAtom(id, initial, persisted, lazyLoad) ==
  [id |-> id,
   value |-> IF lazyLoad THEN Undefined ELSE initial,
   key |-> IF persisted THEN StorageKey(id) ELSE NoKey,
   hydrated |-> ~lazyLoad,
   persisted |-> persisted,
   lazyLoad |-> lazyLoad,
   lastAccessed |-> IF lazyLoad THEN Undefined ELSE DateNow,
   size |-> NoSize]

\* the atom variable before store.createAtom has declared the atom
NoAtom == [createAtom(<<>>, Undefined, FALSE, TRUE) EXCEPT !.lazyLoad = FALSE]

(***************************************************************************)
(* The storage driver (MemoryDriver): a map from key to the serialized     *)
(* value, kept as a set of entries with one entry per key.                 *)
(***************************************************************************)
StoredKeys == {e.key : e \in storage}

HasKey(key) == key \in StoredKeys

\* a JS string, as a stored value
Str(chars) == [t |-> "str", chars |-> chars]

\* BaseDriver.serialize: options.serialize when given, else defaultSerialize. The
\* custom pair of the model (custom = TRUE) hands the value on as it is.
serialize(value, custom) == IF custom THEN value ELSE Str(JsonStringify(value))

\* BaseDriver.deserialize: options.deserialize when given, else defaultDeserialize,
\* which parses a string and decodes and parses an ArrayBuffer
deserialize(data, custom) ==
  IF custom THEN data
  ELSE IF data.t = "str" THEN JsonParse(data.chars)
  ELSE IF data.t = "buf" THEN JsonParse(data.bytes)
  ELSE Thrown

\* the storage after MemoryDriver.put(key, value, options)
DriverPut(key, value, custom) ==
  {e \in storage : e.key # key} \cup {[key |-> key, value |-> serialize(value, custom)]}

DriverDelete_kept(key) == storage

\* the storage after MemoryDriver.delete(key)
DriverDelete(key) == {e \in storage : e.key # key}

\* MemoryDriver.get(key, options): null for a missing key
DriverGet(key, custom) ==
  IF HasKey(key) THEN deserialize((CHOOSE e \in storage : e.key = key).value, custom)
  ELSE Null

(***************************************************************************)
(* persistAtom(atom, driver, options): one call per slot, the slots used   *)
(* in order and at most two calls in flight. Every driver operation is one *)
(* step; the operations of one Promise.all take effect in the order they   *)
(* were issued, and those of different calls interleave.                   *)
(***************************************************************************)
Calls == 1..MaxCalls

IdleCall == [pc |-> "idle", value |-> Undefined, threshold |-> 0, compression |-> "none",
             custom |-> FALSE, pending |-> {}, alone |-> TRUE, caller |-> "app"]

Active(c) == c.pc \notin {"idle", "done", "failed", "skipped"}

\* no call is in flight
Quiet == \A q \in Calls : ~Active(calls[q])

\* the bytes persistAtom stores: serialize, encode, compress
Compressed(c) == compress(JsonStringify(c.value), c.compression, hasStream)

\* compressed.byteLength > chunkThreshold
IsChunked(c) == Len(Compressed(c)) > c.threshold

ChunksOf(c) == chunkData(Compressed(c), c.threshold)

\* the calls after call p has passed or failed the guards of persistAtom on value v:
\* skipped, or serialized and waiting for driver.keys()
PersistBegin(p, v, threshold, compression, custom) ==
  IF ~atom.persisted \/ atom.key = NoKey \/ v = Undefined
  THEN [calls EXCEPT ![p].pc = "skipped"]
  ELSE [q \in Calls |->
          IF q = p
          THEN [calls[p] EXCEPT !.pc = "keys", !.value = v, !.threshold = threshold,
                                !.compression = compression, !.custom = custom,
                                !.pending = {},
                                !.alone = \A r \in Calls \ {p} : ~Active(calls[r])]
          ELSE [calls[q] EXCEPT !.alone = IF calls[q].pc = "idle" THEN @ ELSE FALSE]]

\* the slots are used in order: the first two calls can overlap, a later call
\* waits for the calls before it to end
SlotFree(p) ==
  /\ calls[p].pc = "idle"
  /\ p > 1 => calls[p - 1].pc # "idle"
  /\ p > 2 => \A q \in 1..(p - 1) : ~Active(calls[q])

\* persistAtom(atom, driver, {chunkThreshold, compression, serialize}) is called
\* on an atom of value v
PersistStart(p, v, threshold, compression, custom) ==
  /\ SlotFree(p)
  /\ calls' = PersistBegin(p, v, threshold, compression, custom)
  /\ UNCHANGED <<storage, hasStream, doneOrder, hyd, atom>>

\* driver.keys() answers: the old chunk keys are listed and their deletes issued
PersistKeys(p) ==
  /\ calls[p].pc = "keys"
  /\ LET oldChunkKeys == getChunkKeys(atom.key, StoredKeys)
         old == {oldChunkKeys[i] : i \in 1..Len(oldChunkKeys)}
     IN calls' = [calls EXCEPT ![p].pc = "delete", ![p].pending = old]
  /\ UNCHANGED <<storage, hasStream, doneOrder, hyd, atom>>

\* one driver.delete(oldChunkKey) takes effect
PersistDeleteOld(p) ==
  /\ calls[p].pc = "delete"
  /\ calls[p].pending # {}
  /\ LET key == SortKeys(calls[p].pending)[1]
     IN /\ storage' = DriverDelete(key)
        /\ calls' = [calls EXCEPT ![p].pending = @ \ {key}]
  /\ UNCHANGED <<hasStream, doneOrder, hyd, atom>>

\* all deletes have resolved: the puts are issued
PersistDeleted(p) ==
  /\ calls[p].pc = "delete"
  /\ calls[p].pending = {}
  /\ calls' = [calls EXCEPT
       ![p].pc = IF IsChunked(calls[p]) THEN "putchunks" ELSE "putsingle",
       ![p].pending = IF IsChunked(calls[p])
                      THEN {ChunksOf(calls[p])[i] : i \in 1..Len(ChunksOf(calls[p]))}
                      ELSE {}]
  /\ UNCHANGED <<storage, hasStream, doneOrder, hyd, atom>>

\* one driver.put(chunkKey, chunk.data) takes effect
PersistPutChunk(p) ==
  /\ calls[p].pc = "putchunks"
  /\ calls[p].pending # {}
  /\ LET chunk == CHOOSE c \in calls[p].pending :
                     \A other \in calls[p].pending : c.index <= other.index
     IN /\ storage' = DriverPut(getChunkKey(atom.key, chunk.index), Buf(chunk.data),
                                  calls[p].custom)
        /\ calls' = [calls EXCEPT ![p].pending = @ \ {chunk}]
  /\ UNCHANGED <<hasStream, doneOrder, hyd, atom>>

\* all chunk puts have resolved: driver.delete(storageKey) takes effect
PersistDeleteSingle(p) ==
  /\ calls[p].pc = "putchunks"
  /\ calls[p].pending = {}
  /\ storage' = DriverDelete(atom.key)
  /\ calls' = [calls EXCEPT ![p].pc = "finish"]
  /\ UNCHANGED <<hasStream, doneOrder, hyd, atom>>

\* driver.put(storageKey, compressed) takes effect
PersistPutSingle(p) ==
  /\ calls[p].pc = "putsingle"
  /\ storage' = DriverPut(atom.key, Buf(Compressed(calls[p])), calls[p].custom)
  /\ calls' = [calls EXCEPT ![p].pc = "finish"]
  /\ UNCHANGED <<hasStream, doneOrder, hyd, atom>>

PersistFinish_unhydrating(p) ==
  /\ calls[p].pc = "finish"
  /\ atom' = [atom EXCEPT !.hydrated = FALSE, !.lastAccessed = DateNow,
                           !.size = Len(Compressed(calls[p]))]
  /\ calls' = [calls EXCEPT ![p].pc = "done"]
  /\ doneOrder' = Append(doneOrder, p)
  /\ UNCHANGED <<storage, hasStream, hyd>>

\* the last await has resolved: the metadata is updated and the call completes
PersistFinish(p) ==
  /\ calls[p].pc = "finish"
  /\ atom' = [atom EXCEPT !.hydrated = TRUE, !.lastAccessed = DateNow,
                           !.size = Len(Compressed(calls[p]))]
  /\ calls' = [calls EXCEPT ![p].pc = "done"]
  /\ doneOrder' = Append(doneOrder, p)
  /\ UNCHANGED <<storage, hasStream, hyd>>

PersistFail_rollback(p) ==
  /\ calls[p].pc \in {"import", "keys", "delete", "putchunks", "putsingle"}
  /\ calls' = [calls EXCEPT ![p].pc = "failed", ![p].pending = {}]
  /\ atom' = [atom EXCEPT !.value = Undefined, !.hydrated = FALSE]
  /\ UNCHANGED <<storage, hasStream, doneOrder, hyd>>

\* a driver operation of the call (or, in the store, the import before it)
\* rejects: the call throws; the operations of the same Promise.all that have not
\* taken effect are taken to fail as well
PersistFail(p) ==
  /\ calls[p].pc \in {"import", "keys", "delete", "putchunks", "putsingle"}
  /\ calls' = [calls EXCEPT ![p].pc = "failed", ![p].pending = {}]
  /\ UNCHANGED <<storage, hasStream, doneOrder, hyd, atom>>

(***************************************************************************)
(* hydrateAtom(atom, driver, options): one call at a time.                 *)
(***************************************************************************)
IdleHydrate == [pc |-> "idle", compression |-> "none", custom |-> FALSE, chunkKeys |-> <<>>,
                got |-> <<>>, result |-> Undefined]

\* text = new TextDecoder().decode(bytes); JSON.parse(text), after decompress
DecodeAndParse(bytes, compression) ==
  LET decompressed == decompress(bytes, compression, hasStream)
  IN IF decompressed = StreamError THEN Thrown ELSE JsonParse(decompressed)

\* the guards pass and driver.keys() is issued
HydrateStart(compression, custom) ==
  /\ hyd.pc = "idle"
  /\ IF ~atom.persisted \/ atom.key = NoKey
     THEN hyd' = [IdleHydrate EXCEPT !.pc = "done", !.result = Thrown]
     ELSE hyd' = [IdleHydrate EXCEPT !.pc = "keys", !.compression = compression,
                                     !.custom = custom]
  /\ UNCHANGED <<storage, hasStream, calls, doneOrder, atom>>

\* driver.keys() answers: the chunk keys of the storage key are listed
HydrateKeys ==
  /\ hyd.pc = "keys"
  /\ LET chunkKeys == getChunkKeys(atom.key, StoredKeys)
     IN hyd' = [hyd EXCEPT !.pc = IF Len(chunkKeys) > 0 THEN "getchunks" ELSE "getsingle",
                           !.chunkKeys = chunkKeys]
  /\ UNCHANGED <<storage, hasStream, calls, doneOrder, atom>>

\* one driver.get(chunkKey) answers; anything but an ArrayBuffer makes the call throw
HydrateGetChunk ==
  /\ hyd.pc = "getchunks"
  /\ \E i \in 1..Len(hyd.chunkKeys) :
       /\ \A j \in 1..Len(hyd.got) : hyd.got[j].at # i
       /\ LET chunk == DriverGet(hyd.chunkKeys[i], hyd.custom)
          IN IF ~IsBuf(chunk)
             THEN hyd' = [hyd EXCEPT !.pc = "done", !.result = Thrown]
             ELSE hyd' = [hyd EXCEPT !.got = Append(@,
                            [at |-> i, index |-> ChunkIndexOf(hyd.chunkKeys[i]),
                             data |-> chunk.bytes])]
  /\ UNCHANGED <<storage, hasStream, calls, doneOrder, atom>>

\* every chunk has arrived: reconstruct, decompress, deserialize
HydrateReconstruct ==
  /\ hyd.pc = "getchunks"
  /\ Len(hyd.got) = Len(hyd.chunkKeys)
  /\ LET chunks == [i \in 1..Len(hyd.chunkKeys) |->
                      LET g == hyd.got[CHOOSE j \in 1..Len(hyd.got) : hyd.got[j].at = i]
                      IN [index |-> g.index, data |-> g.data]]
         reconstructed == reconstructData(chunks)
     IN hyd' = [hyd EXCEPT !.pc = "done",
                           !.result = DecodeAndParse(reconstructed, hyd.compression)]
  /\ UNCHANGED <<storage, hasStream, calls, doneOrder, atom>>

HydrateGetSingle_defaulting ==
  /\ hyd.pc = "getsingle"
  /\ LET rawData == DriverGet(atom.key, hyd.custom)
     IN hyd' = [hyd EXCEPT !.pc = "done",
                           !.result = IF rawData = Null THEN Obj(<<>>, <<>>) ELSE rawData]
  /\ UNCHANGED <<storage, hasStream, calls, doneOrder, atom>>

\* driver.get(storageKey) answers
HydrateGetSingle ==
  /\ hyd.pc = "getsingle"
  /\ LET rawData == DriverGet(atom.key, hyd.custom)
     IN hyd' = [hyd EXCEPT
          !.pc = "done",
          !.result = IF rawData = Null THEN Thrown
                     ELSE IF IsBuf(rawData) /\ hyd.compression # "none"
                     THEN DecodeAndParse(rawData.bytes, hyd.compression)
                     ELSE rawData]
  /\ UNCHANGED <<storage, hasStream, calls, doneOrder, atom>>

\* a driver operation of the call rejects
HydrateFail ==
  /\ hyd.pc \in {"keys", "getchunks", "getsingle"}
  /\ hyd' = [hyd EXCEPT !.pc = "failed", !.result = Thrown]
  /\ UNCHANGED <<storage, hasStream, calls, doneOrder, atom>>

(***************************************************************************)
(* Specification of the persistence pipeline: persistAtom calls on one     *)
(* persisted atom, interleaved, none or some of them failing.              *)
(***************************************************************************)
PersistIdle ==
  /\ storage = {}
  /\ hasStream = FALSE
  /\ calls = [p \in Calls |-> IdleCall]
  /\ doneOrder = <<>>
  /\ hyd = IdleHydrate

(***************************************************************************)
(* Events. A missing target is NoKey, a missing sequence number NoSeq.     *)
(* The wall-clock fields (ts, timestamp) are left out.                     *)
(***************************************************************************)
NoSeq == -1
NoMeta == [t |-> "nometa"]

\* what the caller hands to log: a DevToolsEvent without seq
EventInput(type, target, meta, newValue) ==
  [type |-> type, target |-> target, meta |-> meta, newValue |-> newValue]

\* the event the store's notify callback logs for an update of an atom
AtomUpdateLogged(target, previousValue, value) ==
  EventInput("atom-update", target,
             [t |-> "meta", previousValue |-> previousValue, newValue |-> value], Undefined)

\* an AtomUpdateEvent as the type declares it: newValue is a field of the event
AtomUpdateTyped(target, value) == EventInput("atom-update", target, NoMeta, value)

DispatchInput(target) == EventInput("dispatch", target, NoMeta, Undefined)

TransactionStartInput == EventInput("transaction-start", NoKey, NoMeta, Undefined)

KeyA == <<"a">>
KeyB == <<"b">>

(***************************************************************************)
(* EventLog.                                                               *)
(***************************************************************************)
DefaultMaxInMemoryEvents == 10000

EventPrefix == <<"d", "e", "v", "t", "o", "o", "l", "s", ":", "e", "v", "e", "n", "t", ":">>

SnapshotPrefix == <<"d", "e", "v", "t", "o", "o", "l", "s", ":", "s", "n", "a", "p", "s",
                    "h", "o", "t", ":">>

EventKey(seq) == EventPrefix \o NatToStr(seq)

SnapshotKey(seq) == SnapshotPrefix \o NatToStr(seq)

\* the part of a stored event or snapshot that the model keeps: its seq
StoredRecord(seq) == Obj(<< <<"s", "e", "q">> >>, <<Num(seq)>>)

RECURSIVE Dedup(_)
\* Array.from(new Set(keys)): the first occurrence of each key, in order
Dedup(keys) ==
  IF keys = <<>> THEN <<>>
  ELSE LET rest == Dedup(SubSeq(keys, 1, Len(keys) - 1))
           last == keys[Len(keys)]
       IN IF \E i \in 1..Len(rest) : rest[i] = last THEN rest ELSE Append(rest, last)

\* extractAtomKeys over the given in-memory events
extractAtomKeys(evs) ==
  Dedup(SelectSeq([i \in 1..Len(evs) |-> evs[i].target], LAMBDA k : k # NoKey))

Retained_oldest(evs) ==
  IF Len(evs) > logConfig.maxInMemoryEvents
  THEN SubSeq(evs, 1, logConfig.maxInMemoryEvents)
  ELSE evs

\* push and trim to maxInMemoryEvents
Retained(evs) ==
  IF Len(evs) > logConfig.maxInMemoryEvents
  THEN SubSeq(evs, Len(evs) - logConfig.maxInMemoryEvents + 1, Len(evs))
  ELSE evs

SnapshotsAfterCheck_always(seqNow, evs) ==
  Append(snapshots, [seq |-> seqNow, atomKeys |-> extractAtomKeys(evs)])

\* the snapshot check and the synchronous part of createSnapshot, on the log as
\* it is when the check runs
SnapshotsAfterCheck(seqNow, evs) ==
  IF seqNow % logConfig.snapshotInterval = 0
  THEN Append(snapshots, [seq |-> seqNow, atomKeys |-> extractAtomKeys(evs)])
  ELSE snapshots

\* the result of reconstruct, kept until the log changes: the options, the snapshot
\* chosen and the events fetched beside the seq, state and keys that are returned
NoSnapshot == [seq |-> NoSeq, atomKeys |-> <<>>]

NoFilter == [given |-> FALSE, keys |-> <<>>]
Filter(keys) == [given |-> TRUE, keys |-> keys]

NoRecon == [called |-> FALSE, targetSeq |-> NoSeq, filter |-> NoFilter, includeState |-> FALSE,
            base |-> NoSnapshot, fetched |-> <<>>, seq |-> 0, state |-> Undefined,
            atomKeys |-> <<>>]

NextSeq_skipping(n) == n + 2

\* ++this.sequenceNumber
NextSeq(n) == n + 1

\* log(event) is called: seq is assigned, the event appended and the list trimmed.
\* With persist and a driver the call then awaits the mirror write; otherwise it
\* goes on to the snapshot check at once.
Log(ev) ==
  /\ Len(issued) < MaxLog
  /\ Cardinality(logCalls) < MaxInFlight
  /\ LET seq == NextSeq(sequenceNumber)
         fullEvent == [seq |-> seq, type |-> ev.type, target |-> ev.target,
                       meta |-> ev.meta, newValue |-> ev.newValue]
         evs == Retained(Append(events, fullEvent))
     IN /\ sequenceNumber' = seq
        /\ events' = evs
        /\ issued' = Append(issued, fullEvent)
        /\ disturbed' = (disturbed \/ logCalls # {})
        /\ IF logConfig.persist /\ logConfig.driver
           THEN /\ logCalls' = logCalls \cup {[seq |-> seq, pc |-> "persist"]}
                /\ UNCHANGED snapshots
           ELSE /\ snapshots' = SnapshotsAfterCheck(seq, evs)
                /\ logCalls' = IF seq % logConfig.snapshotInterval = 0 /\ logConfig.driver
                               THEN logCalls \cup {[seq |-> seq, pc |-> "snapshot"]}
                               ELSE logCalls
  /\ recon' = NoRecon
  /\ UNCHANGED <<logConfig, storage>>

\* the mirror write of a call lands and the call resumes: the snapshot check
\* reads this.sequenceNumber as it is now
LogPersisted ==
  /\ \E c \in logCalls :
       /\ c.pc = "persist"
       /\ storage' = DriverPut(EventKey(c.seq), StoredRecord(c.seq), FALSE)
       /\ snapshots' = SnapshotsAfterCheck(sequenceNumber, events)
       /\ logCalls' = (logCalls \ {c}) \cup
                      (IF sequenceNumber % logConfig.snapshotInterval = 0
                       THEN {[seq |-> sequenceNumber, pc |-> "snapshot", of |-> c.seq]}
                       ELSE {})
  /\ UNCHANGED <<logConfig, events, sequenceNumber, issued, disturbed, recon>>

\* the write of a snapshot lands and the call returns
LogSnapshotStored ==
  /\ \E c \in logCalls :
       /\ c.pc = "snapshot"
       /\ storage' = DriverPut(SnapshotKey(c.seq), StoredRecord(c.seq), FALSE)
       /\ logCalls' = logCalls \ {c}
  /\ UNCHANGED <<logConfig, events, sequenceNumber, snapshots, issued, disturbed,
                 recon>>

\* a driver.put of a call rejects and the call throws: after the mirror write no
\* snapshot check is made; a snapshot that could not be stored stays in memory
LogPutFailed ==
  /\ \E c \in logCalls : logCalls' = logCalls \ {c}
  /\ disturbed' = TRUE
  /\ UNCHANGED <<logConfig, events, sequenceNumber, snapshots, issued, recon, storage>>

\* clear(), called while no log call is in flight: the in-memory log is reset and
\* the stored events and snapshots deleted
LogClear ==
  /\ events # <<>>
  /\ logCalls = {}
  /\ events' = <<>>
  /\ sequenceNumber' = 0
  /\ snapshots' = <<>>
  /\ issued' = <<>>
  /\ disturbed' = FALSE
  /\ storage' = IF logConfig.driver
                THEN {e \in storage : /\ ~StartsWith(e.key, EventPrefix)
                                      /\ ~StartsWith(e.key, SnapshotPrefix)}
                ELSE storage
  /\ recon' = NoRecon
  /\ UNCHANGED <<logConfig, logCalls>>

\* getEvents(startSeq, endSeq, eventType); NoSeq and NoType stand for undefined
NoType == ""

getEvents_truthy(startSeq, endSeq, eventType) ==
  LET fromStart == IF startSeq # NoSeq /\ startSeq # 0
                   THEN SelectSeq(events, LAMBDA e : e.seq >= startSeq) ELSE events
      toEnd == IF endSeq # NoSeq /\ endSeq # 0
               THEN SelectSeq(fromStart, LAMBDA e : e.seq <= endSeq) ELSE fromStart
  IN IF eventType # NoType THEN SelectSeq(toEnd, LAMBDA e : e.type = eventType) ELSE toEnd

getEvents(startSeq, endSeq, eventType) ==
  LET fromStart == IF startSeq # NoSeq
                   THEN SelectSeq(events, LAMBDA e : e.seq >= startSeq) ELSE events
      toEnd == IF endSeq # NoSeq
               THEN SelectSeq(fromStart, LAMBDA e : e.seq <= endSeq) ELSE fromStart
  IN IF eventType # NoType THEN SelectSeq(toEnd, LAMBDA e : e.type = eventType) ELSE toEnd

\* getLatestEvent()?.seq ?? 0
LatestSeq == IF Len(events) > 0 THEN events[Len(events)].seq ELSE 0

(***************************************************************************)
(* StateReconstructor.                                                     *)
(***************************************************************************)
findClosestSnapshot_exact(seq) ==
  LET fits == {i \in 1..Len(snapshots) : snapshots[i].seq = seq}
  IN IF fits = {} THEN NoSnapshot
     ELSE snapshots[CHOOSE i \in fits : \A j \in fits : i <= j]

\* the first snapshot of greatest seq among those with seq <= the target
findClosestSnapshot(seq) ==
  LET fits == {i \in 1..Len(snapshots) : snapshots[i].seq <= seq}
  IN IF fits = {} THEN NoSnapshot
     ELSE snapshots[CHOOSE i \in fits :
                      \A j \in fits : \/ snapshots[j].seq < snapshots[i].seq
                                      \/ snapshots[j].seq = snapshots[i].seq /\ i <= j]

\* applyEventToState: only an atom-update writes, and it writes event.newValue
applyEventToState(event, state) ==
  IF event.target = NoKey THEN state
  ELSE IF event.type = "atom-update" THEN ObjPut(state, event.target, event.newValue)
  ELSE state

RECURSIVE Replay(_, _, _, _)
\* the loop over the fetched events, from the accumulated keys and state
Replay(evs, atomKeys, includeState, acc) ==
  IF evs = <<>> THEN acc
  ELSE LET event == Head(evs)
           skipped == /\ atomKeys.given
                      /\ event.target # NoKey
                      /\ \A i \in 1..Len(atomKeys.keys) : atomKeys.keys[i] # event.target
           next == IF skipped THEN acc
                   ELSE [keys |-> IF event.target # NoKey
                                  THEN Dedup(Append(acc.keys, event.target)) ELSE acc.keys,
                         state |-> IF includeState
                                   THEN applyEventToState(event, acc.state) ELSE acc.state]
       IN Replay(Tail(evs), atomKeys, includeState, next)

\* the start of the loop: no key, and {} or undefined for the state
ReplayFrom(evs, atomKeys, includeState) ==
  Replay(evs, atomKeys, includeState,
         [keys |-> <<>>, state |-> IF includeState THEN Obj(<<>>, <<>>) ELSE Undefined])

\* reconstructFromEvents(startSeq, endSeq, atomKeys, includeState)
reconstructFromEvents(startSeq, endSeq, atomKeys, includeState) ==
  LET fetched == getEvents(startSeq, endSeq, NoType)
      out == ReplayFrom(fetched, atomKeys, includeState)
  IN [called |-> TRUE, targetSeq |-> endSeq, filter |-> atomKeys, includeState |-> includeState,
      base |-> NoSnapshot, fetched |-> fetched,
      seq |-> IF endSeq # NoSeq THEN endSeq ELSE LatestSeq,
      state |-> out.state, atomKeys |-> out.keys]

\* reconstruct({targetSeq, atomKeys, includeState}); the record keeps the options,
\* the snapshot chosen and the events fetched beside the result that is returned
reconstruct(targetSeq, atomKeys, includeState) ==
  LET snapshot == IF targetSeq # NoSeq /\ targetSeq # 0
                  THEN findClosestSnapshot(targetSeq)
                  ELSE IF Len(snapshots) > 0 THEN snapshots[Len(snapshots)] ELSE NoSnapshot
  IN IF snapshot = NoSnapshot
     THEN reconstructFromEvents(0, targetSeq, atomKeys, includeState)
     ELSE LET fetched == getEvents(snapshot.seq + 1, targetSeq, NoType)
              out == ReplayFrom(fetched, atomKeys, includeState)
          IN [called |-> TRUE, targetSeq |-> targetSeq, filter |-> atomKeys,
              includeState |-> includeState, base |-> snapshot, fetched |-> fetched,
              seq |-> IF targetSeq # NoSeq THEN targetSeq ELSE snapshot.seq,
              state |-> out.state, atomKeys |-> out.keys]

\* a call of reconstruct; its awaits yield no control to a writer of the values
\* it works on (the events are a filtered copy, the snapshot is chosen before)
Reconstruct(targetSeq, atomKeys, includeState) ==
  /\ recon' = reconstruct(targetSeq, atomKeys, includeState)
  /\ UNCHANGED <<logConfig, events, sequenceNumber, snapshots, logCalls, issued,
                 disturbed, storage>>

(***************************************************************************)
(* The store (StoreImpl) with one atom. Its scheduler and subscriptions   *)
(* are modelled further down; here no listener is subscribed.              *)
(***************************************************************************)
DEFAULT_CHUNK_THRESHOLD == 10 * 1024 * 1024

StoreValues == {Num(1), Num(2)}

\* key in b, for an object or an array
HasProp(v, key) == \E i \in 1..Len(ObjectKeys(v)) : ObjectKeys(v)[i] = key

\* defaultEquals: Object.is, or a shallow comparison of two objects
defaultEquals(a, b) ==
  \/ ObjectIs(a, b)
  \/ /\ TypeOf(a) = "object" /\ a # Null /\ TypeOf(b) = "object" /\ b # Null
     /\ Len(ObjectKeys(a)) = Len(ObjectKeys(b))
     /\ \A i \in 1..Len(ObjectKeys(a)) :
          /\ HasProp(b, ObjectKeys(a)[i])
          /\ ObjectIs(PropGet(a, ObjectKeys(a)[i]), PropGet(b, ObjectKeys(a)[i]))

areValuesEqual(a, b) == defaultEquals(a, b)

IdleGet == [pc |-> "idle", result |-> Undefined]

\* the atom has been declared with store.createAtom
Declared == AtomId \in store.atoms

\* store.createAtom(key, initial, {persisted, lazyLoad}) on a key not yet declared
StoreCreateAtom(initial, persisted, lazyLoad) ==
  /\ ~Declared
  /\ atom' = createAtom(AtomId, initial, persisted, lazyLoad)
  /\ store' = [store EXCEPT !.atoms = @ \cup {AtomId}]
  /\ UNCHANGED <<getCall, persistVars>>

\* store.createAtom on a key that is declared throws
StoreCreateAtomAgain ==
  /\ Declared
  /\ UNCHANGED <<storeVars, persistVars>>

\* what get(atom) returns
get(a) == a.value

\* get(atom): writes lastAccessed and returns atom.value
StoreGet ==
  /\ atom' = [atom EXCEPT !.lastAccessed = DateNow]
  /\ UNCHANGED <<store, getCall, persistVars>>

\* getAsync(atom) up to its first await or its return
GetAsyncStart ==
  /\ getCall.pc \in {"idle", "done"}
  /\ hyd.pc = "idle"
  /\ getCall' = IF atom.hydrated /\ atom.value # Undefined
                THEN [pc |-> "done", result |-> atom.value]
                ELSE IF atom.persisted /\ ~atom.hydrated /\ store.driver
                THEN [pc |-> "import", result |-> Undefined]
                ELSE IF atom.value = Undefined
                THEN [pc |-> "done", result |-> Thrown]
                ELSE [pc |-> "done", result |-> atom.value]
  /\ atom' = [atom EXCEPT !.lastAccessed = DateNow]
  /\ UNCHANGED <<store, persistVars>>

\* the import has resolved: hydrateAtom(atom, driver) is called
GetAsyncImported ==
  /\ getCall.pc = "import"
  /\ HydrateStart("none", FALSE)
  /\ getCall' = [getCall EXCEPT !.pc = "hydrating"]
  /\ UNCHANGED store

\* hydrateAtom has returned or thrown: the value is cached and the atom marked
\* hydrated, or the error is caught and rethrown when the atom has no value
GetAsyncHydrated ==
  /\ getCall.pc = "hydrating"
  /\ hyd.pc \in {"done", "failed"}
  /\ IF hyd.result # Thrown
     THEN /\ atom' = [atom EXCEPT !.value = hyd.result, !.hydrated = TRUE]
          /\ getCall' = [pc |-> "done", result |-> hyd.result]
     ELSE /\ atom' = atom
          /\ getCall' = [pc |-> "done",
                         result |-> IF atom.value = Undefined THEN Thrown ELSE atom.value]
  /\ hyd' = IdleHydrate
  /\ UNCHANGED <<store, storage, hasStream, calls, doneOrder>>

\* the first slot a new persist call can take, 0 when there is none
FreeSlot == IF \E p \in Calls : SlotFree(p) THEN CHOOSE p \in Calls : SlotFree(p) ELSE 0

\* set(atom, value) up to the call of this.persistAtom, which passes its guards
\* and awaits the import
StoreWrite(value, caller) ==
  /\ ~(atom.value # Undefined /\ areValuesEqual(atom.value, value))
  /\ atom' = [atom EXCEPT !.value = value, !.hydrated = TRUE, !.lastAccessed = DateNow]
  /\ IF atom.persisted /\ store.driver /\ atom.key # NoKey
     THEN /\ FreeSlot # 0
          /\ calls' = [calls EXCEPT ![FreeSlot].pc = "import", ![FreeSlot].caller = caller,
                                    ![FreeSlot].value = value]
     ELSE UNCHANGED calls
  /\ UNCHANGED <<store, getCall, storage, hasStream, doneOrder, hyd>>

\* set(atom, value): the persist call is not awaited and its rejection is caught
StoreSet(value) == StoreWrite(value, "set")

\* setAsync(atom, value): as set, and the caller waits for the persist call
StoreSetAsync(value) == StoreWrite(value, "setAsync")

\* set or setAsync finds the value unchanged and returns
StoreSetSame(value) ==
  /\ atom.value # Undefined /\ areValuesEqual(atom.value, value)
  /\ UNCHANGED <<storeVars, persistVars>>

\* this.persistAtom(atom) of the store: a failure of the import or of persistAtom
\* is caught, logged and thrown again
PersistRejected(c) == c.pc = "failed"

\* setAsync awaits this.persistAtom(atom): what its caller gets once the persist
\* call has ended
SetAsyncResult(c) == IF PersistRejected(c) THEN "rejected" ELSE "resolved"

\* set returns before the persist call has begun
SetResult(c) == "returned"

\* the handler on the promise of this.persistAtom(atom): the .catch of set, the
\* await of setAsync
RejectionHandler(caller) ==
  IF caller = "set" THEN "catch" ELSE IF caller = "setAsync" THEN "await" ELSE "none"

\* a rejection nothing handles
UnhandledRejection(c) == PersistRejected(c) /\ RejectionHandler(c.caller) = "none"

\* the import of a persist call has resolved: persistAtom(atom, driver, {compress})
\* is called and reads atom.value as it is now
StorePersistImported(p) ==
  /\ calls[p].pc = "import"
  /\ calls' = PersistBegin(p, atom.value, DEFAULT_CHUNK_THRESHOLD, "none", FALSE)
  /\ UNCHANGED <<storeVars, storage, hasStream, doneOrder, hyd>>

\* transaction(callback) starts; inside one, a nested call only runs its callback
TransactionStart ==
  /\ ~store.inTransaction
  /\ store' = [store EXCEPT !.inTransaction = TRUE]
  /\ UNCHANGED <<atom, getCall, persistVars>>

\* the callback of the transaction has returned and the updates are flushed
TransactionEnd ==
  /\ store.inTransaction
  /\ store' = [store EXCEPT !.inTransaction = FALSE]
  /\ UNCHANGED <<atom, getCall, persistVars>>

(***************************************************************************)
(* Initial states of the parts a specification leaves alone.               *)
(***************************************************************************)
\* no notification is in progress
NoRound == [listeners |-> <<>>, value |-> Undefined, previousValue |-> Undefined]

NoListener == ""

Listeners == {"l1", "l2"}

\* no listener has been called and no unsubscribe function either
NoHeard == [listener |-> NoListener, value |-> Undefined, previousValue |-> Undefined,
            inCallback |-> FALSE, unsubscribed |-> FALSE, gone |-> {},
            times |-> [l \in Listeners |-> 0]]

\* no transaction call has been made
NoTransaction == [pc |-> "idle", clean |-> FALSE, awaited |-> FALSE, updated |-> FALSE,
                  subscribers |-> {}]

\* no subscribe call has been made, no update is scheduled and no notification
\* or transaction is in progress
NotifyIdle ==
  /\ updateQueue = <<>>
  /\ isScheduled = FALSE
  /\ microtasks = 0
  /\ subscriptions = <<>>
  /\ round = NoRound
  /\ txn = NoTransaction
  /\ heard = NoHeard

DefaultSnapshotInterval == 1000

StoreIdle ==
  /\ atom = createAtom(AtomId, Num(1), FALSE, FALSE)
  /\ store = [driver |-> FALSE, inTransaction |-> FALSE, atoms |-> {AtomId}]
  /\ getCall = IdleGet
  /\ NotifyIdle

LogIdle ==
  /\ logConfig = [maxInMemoryEvents |-> DefaultMaxInMemoryEvents, persist |-> FALSE,
                  driver |-> FALSE, snapshotInterval |-> DefaultSnapshotInterval]
  /\ events = <<>>
  /\ sequenceNumber = 0
  /\ snapshots = <<>>
  /\ logCalls = {}
  /\ issued = <<>>
  /\ disturbed = FALSE
  /\ recon = NoRecon

(***************************************************************************)
(* SpecPatch: generatePatches on a pair of values, then applyPatches.      *)
(***************************************************************************)
InitPatch == PatchInit /\ PersistIdle /\ StoreIdle /\ LogIdle

SpecPatch == InitPatch /\ [][PatchNext]_vars

\* C1: for all tree-shaped values a and b, applyPatches(a, generatePatches(a, b))
\* is structurally equal to b.
C1_ApplyOfDiffIsTarget == ppc = "applied" => DeepEqual(patched, newObj)

(***************************************************************************)
(* SpecPersist: persistAtom calls on one persisted atom, two of them at a  *)
(* time, their driver operations interleaved, some of them failing.        *)
(***************************************************************************)
InitPersist ==
  /\ PatchIdle /\ PersistIdle /\ LogIdle
  /\ atom = createAtom(AtomId, Num(1), TRUE, FALSE)
  /\ store = [driver |-> TRUE, inTransaction |-> FALSE, atoms |-> {AtomId}]
  /\ getCall = IdleGet
  /\ NotifyIdle

PersistRest == UNCHANGED <<patchVars, store, getCall, logVars, notifyVars>>

NextPersist ==
  \/ \E p \in Calls, v \in PersistValues, threshold \in 1..MaxThreshold :
       PersistStart(p, v, threshold, "none", FALSE) /\ PersistRest
  \/ \E p \in Calls : PersistKeys(p) /\ PersistRest
  \/ \E p \in Calls : PersistDeleteOld(p) /\ PersistRest
  \/ \E p \in Calls : PersistDeleted(p) /\ PersistRest
  \/ \E p \in Calls : PersistPutChunk(p) /\ PersistRest
  \/ \E p \in Calls : PersistDeleteSingle(p) /\ PersistRest
  \/ \E p \in Calls : PersistPutSingle(p) /\ PersistRest
  \/ \E p \in Calls : PersistFinish(p) /\ PersistRest
  \/ \E p \in Calls : PersistFail(p) /\ PersistRest

SpecPersist == InitPersist /\ [][NextPersist]_vars

\* the keys of the chunk entries stored under the base key of the atom
StoredChunkKeys == {k \in StoredKeys : StartsWith(k, atom.key \o ChunkMarker)}

\* the number of chunks a value of L bytes needs at chunk size T
ChunksNeeded(L, T) == (L + T - 1) \div T

\* the keys of the layout that call c writes
LayoutKeys(c) ==
  IF Len(Compressed(c)) > c.threshold
  THEN {getChunkKey(atom.key, i) :
          i \in 0..(ChunksNeeded(Len(Compressed(c)), c.threshold) - 1)}
  ELSE {atom.key}

\* C3: at every reachable driver state a base storage key never has both a
\* single-value entry and one or more chunk entries.
C3_NeverSingleAndChunks == ~(HasKey(atom.key) /\ StoredChunkKeys # {})

\* C4: after a persistAtom call has completed with no other persist for the key
\* in flight, and before any other has started, the entries under the base key
\* are exactly those of the layout of the value it wrote.
C4_SoloCallLeavesItsLayout ==
  \A p \in Calls : calls[p].pc = "done" /\ calls[p].alone => StoredKeys = LayoutKeys(calls[p])

\* a call alone has replaced a layout of three chunks by one of two
C4_Witness ==
  /\ calls[1].pc = "done" /\ calls[2].pc = "done" /\ calls[2].alone
  /\ Len(ChunksOf(calls[1])) = 3 /\ Len(ChunksOf(calls[2])) = 2
  /\ IsChunked(calls[2])

\* C5: once two persistAtom calls that ran concurrently have both completed, the
\* driver holds exactly the layout of the one that completed last.
C5_LastCompletedWins ==
  LET n == Len(doneOrder)
  IN (/\ n >= 2
      /\ Quiet
      /\ \A p \in Calls : calls[p].pc \in {"idle", "done"}
      /\ ~calls[doneOrder[n - 1]].alone /\ ~calls[doneOrder[n]].alone)
     => StoredKeys = LayoutKeys(calls[doneOrder[n]])

(***************************************************************************)
(* SpecRoundTrip: persistAtom calls one after the other, then one          *)
(* hydrateAtom with the options of the last call, on a runtime with or     *)
(* without CompressionStream.                                              *)
(***************************************************************************)
Compressions == {"none", "gzip"}

\* the call started last, 0 before the first
LastCall == IF calls[1].pc = "idle" THEN 0
            ELSE CHOOSE p \in Calls : calls[p].pc # "idle" /\ \A q \in Calls : q > p => calls[q].pc = "idle"

InitRoundTrip ==
  /\ PatchIdle /\ LogIdle
  /\ storage = {}
  /\ hasStream \in BOOLEAN
  /\ calls = [p \in Calls |-> IdleCall]
  /\ doneOrder = <<>>
  /\ hyd = IdleHydrate
  /\ atom = createAtom(AtomId, Num(1), TRUE, FALSE)
  /\ store = [driver |-> TRUE, inTransaction |-> FALSE, atoms |-> {AtomId}]
  /\ getCall = IdleGet
  /\ NotifyIdle

\* a persistAtom call runs only while no hydrateAtom has started, and starts
\* only when no other call is in flight
Serial(p) == hyd.pc = "idle" /\ calls[p].pc # "import"

NextRoundTrip ==
  \/ \E p \in Calls, v \in PersistValues, threshold \in 1..MaxThreshold,
        compression \in Compressions, custom \in BOOLEAN :
       /\ Quiet /\ Serial(p)
       /\ PersistStart(p, v, threshold, compression, custom) /\ PersistRest
  \/ \E p \in Calls : Serial(p) /\ PersistKeys(p) /\ PersistRest
  \/ \E p \in Calls : Serial(p) /\ PersistDeleteOld(p) /\ PersistRest
  \/ \E p \in Calls : Serial(p) /\ PersistDeleted(p) /\ PersistRest
  \/ \E p \in Calls : Serial(p) /\ PersistPutChunk(p) /\ PersistRest
  \/ \E p \in Calls : Serial(p) /\ PersistDeleteSingle(p) /\ PersistRest
  \/ \E p \in Calls : Serial(p) /\ PersistPutSingle(p) /\ PersistRest
  \/ \E p \in Calls : Serial(p) /\ PersistFinish(p) /\ PersistRest
  \/ \E p \in Calls : Serial(p) /\ PersistFail(p) /\ PersistRest
  \/ /\ Quiet /\ LastCall # 0
     /\ HydrateStart(calls[LastCall].compression, calls[LastCall].custom) /\ PersistRest
  \/ HydrateKeys /\ PersistRest
  \/ HydrateGetChunk /\ PersistRest
  \/ HydrateReconstruct /\ PersistRest
  \/ HydrateGetSingle /\ PersistRest
  \/ HydrateFail /\ PersistRest

SpecRoundTrip == InitRoundTrip /\ [][NextRoundTrip]_vars

\* C2: hydrateAtom called after a completed persistAtom of v on the same driver
\* with the same options returns a value structurally equal to v, whether v was
\* stored as one entry or as chunks.
C2_HydrateReturnsPersisted ==
  (hyd.pc = "done" /\ calls[LastCall].pc = "done")
    => DeepEqual(hyd.result, calls[LastCall].value)

(***************************************************************************)
(* SpecLog: log calls on one EventLog, awaited or overlapping, and clear,  *)
(* under each configuration.                                               *)
(***************************************************************************)
LogInputs == {DispatchInput(KeyA), TransactionStartInput}

LogStart ==
  /\ events = <<>>
  /\ sequenceNumber = 0
  /\ snapshots = <<>>
  /\ logCalls = {}
  /\ issued = <<>>
  /\ disturbed = FALSE
  /\ recon = NoRecon

InitLog ==
  /\ PatchIdle /\ PersistIdle /\ StoreIdle /\ LogStart
  /\ \E retain \in {MaxRetain, DefaultMaxInMemoryEvents}, persist \in BOOLEAN,
        driver \in BOOLEAN, interval \in 1..MaxInterval :
       logConfig = [maxInMemoryEvents |-> retain, persist |-> persist, driver |-> driver,
                    snapshotInterval |-> interval]

LogRest == UNCHANGED <<patchVars, hasStream, calls, doneOrder, hyd, storeVars, notifyVars>>

NextLog ==
  \/ \E ev \in LogInputs : Log(ev) /\ LogRest
  \/ LogPersisted /\ LogRest
  \/ LogSnapshotStored /\ LogRest
  \/ LogPutFailed /\ LogRest
  \/ LogClear /\ LogRest

SpecLog == InitLog /\ [][NextLog]_vars

ReplayInputs ==
  {AtomUpdateLogged(KeyA, Undefined, Num(1)), AtomUpdateTyped(KeyA, Num(2)),
   DispatchInput(KeyB), TransactionStartInput}

\* no target, and every target up to one past the last seq a log call can assign
TargetSeqs == {NoSeq} \cup 0..(MaxReplay + 1)

Filters == {NoFilter, Filter(<<KeyA>>)}

InitReplay ==
  /\ PatchIdle /\ PersistIdle /\ StoreIdle /\ LogStart
  /\ \E retain \in {MaxRetain, DefaultMaxInMemoryEvents}, interval \in 1..MaxInterval :
       logConfig = [maxInMemoryEvents |-> retain, persist |-> FALSE, driver |-> FALSE,
                    snapshotInterval |-> interval]

NextReplay ==
  \/ \E ev \in ReplayInputs : Len(issued) < MaxReplay /\ Log(ev) /\ LogRest
  \/ \E t \in TargetSeqs, atomKeys \in Filters, includeState \in BOOLEAN :
       Reconstruct(t, atomKeys, includeState) /\ LogRest

SpecReplay == InitReplay /\ [][NextReplay]_vars

\* the seq of the snapshot of greatest seq <= t, of the latest when t is omitted,
\* NoSeq when there is none
BaseSeqFor(t) ==
  LET fits == {snapshots[i].seq : i \in 1..Len(snapshots)} \cap
              (IF t = NoSeq THEN Int ELSE {n \in 0..t : TRUE})
  IN IF fits = {} THEN NoSeq ELSE CHOOSE n \in fits : \A m \in fits : m <= n

\* C8: reconstruct with targetSeq = t uses as base the snapshot with the greatest
\* seq <= t (the latest when t is omitted, none when none qualifies) and folds
\* exactly the retained events with base.seq < seq <= t, in ascending seq order.
C8_BaseAndReplayedEvents ==
  [][(recon'.called /\ recon' # recon) =>
       LET t == recon'.targetSeq
           baseSeq == BaseSeqFor(t)
       IN /\ recon'.base.seq = baseSeq
          /\ recon'.fetched = SelectSeq(events, LAMBDA e : /\ e.seq > baseSeq
                                                           /\ (t = NoSeq \/ e.seq <= t))]_vars

\* the new value an atom-update event carries: where the store puts it, in meta,
\* or as the field the event type declares
CarriedValue(e) == IF e.meta # NoMeta THEN e.meta.newValue ELSE e.newValue

\* the replayed events: the fetched ones that pass the atomKeys filter
Replayed(r) ==
  SelectSeq(r.fetched, LAMBDA e : \/ ~r.filter.given
                                  \/ e.target = NoKey
                                  \/ \E i \in 1..Len(r.filter.keys) : r.filter.keys[i] = e.target)

\* C9: with includeState the state map maps each key k to the new value carried
\* by the last replayed atom-update event targeting k, as the store logs it, and
\* has no other key; the target of a replayed dispatch event is in the key set.
C9_StateIsLastUpdate ==
  (recon.called /\ recon.includeState) =>
    /\ \A k \in {KeyA, KeyB} :
         LET updates == SelectSeq(Replayed(recon),
                                  LAMBDA e : e.type = "atom-update" /\ e.target = k)
         IN IF updates = <<>> THEN ~ObjHas(recon.state, k)
            ELSE /\ ObjHas(recon.state, k)
                 /\ ObjGet(recon.state, k) = CarriedValue(updates[Len(updates)])
    /\ \A i \in 1..Len(Replayed(recon)) :
         Replayed(recon)[i].type = "dispatch" =>
           \E j \in 1..Len(recon.atomKeys) : recon.atomKeys[j] = Replayed(recon)[i].target

(***************************************************************************)
(* SpecStore: one atom of each kind in a store with or without a driver,   *)
(* over a storage that is empty or was written in an earlier session; get, *)
(* getAsync, set, setAsync, transaction and persistAtom, the driver         *)
(* operations of the calls interleaved and some of them failing.           *)
(***************************************************************************)
\* the storage an earlier session can have left under the key of the atom:
\* nothing, what persistAtom put there, or a value put by the application
PersistedSingle(key, v) == {[key |-> key, value |-> serialize(Buf(JsonStringify(v)), FALSE)]}

EarlierStorage(key) ==
  {{}, PersistedSingle(key, Num(2)),
   {[key |-> key, value |-> serialize(Num(2), FALSE)]},
   {[key |-> getChunkKey(key, 0), value |-> serialize(Buf(<<"2">>), FALSE)]}}

InitStore ==
  /\ PatchIdle /\ LogIdle
  /\ hasStream = FALSE
  /\ calls = [p \in Calls |-> IdleCall]
  /\ doneOrder = <<>>
  /\ hyd = IdleHydrate
  /\ getCall = IdleGet
  /\ NotifyIdle
  /\ atom = NoAtom
  /\ \E driver \in BOOLEAN :
       /\ store = [driver |-> driver, inTransaction |-> FALSE, atoms |-> {}]
       /\ storage \in (IF driver THEN EarlierStorage(StorageKey(AtomId)) ELSE {{}})

StoreRest == UNCHANGED <<patchVars, logVars, notifyVars>>

StoreCallRest == UNCHANGED <<patchVars, logVars, store, getCall, notifyVars>>

\* hydrateAtom is reached through getAsync, where no chunk that is read is an
\* ArrayBuffer, so that the call never comes to reconstruct the chunks; persistAtom
\* is reached through set and setAsync, with the default threshold, under which
\* the values of the model are stored as single values
NextStore ==
  \/ \E persisted \in BOOLEAN, lazyLoad \in BOOLEAN :
       StoreCreateAtom(Num(1), persisted, lazyLoad) /\ StoreRest
  \/ StoreCreateAtomAgain /\ StoreRest
  \/ Declared /\ StoreGet /\ StoreRest
  \/ Declared /\ GetAsyncStart /\ StoreRest
  \/ GetAsyncImported /\ StoreRest
  \/ GetAsyncHydrated /\ StoreRest
  \/ HydrateKeys /\ StoreCallRest
  \/ HydrateGetChunk /\ StoreCallRest
  \/ HydrateGetSingle /\ StoreCallRest
  \/ HydrateFail /\ StoreCallRest
  \/ \E value \in StoreValues : Declared /\ StoreSet(value) /\ StoreRest
  \/ \E value \in StoreValues : Declared /\ StoreSetAsync(value) /\ StoreRest
  \/ \E value \in StoreValues : Declared /\ StoreSetSame(value) /\ StoreRest
  \/ TransactionStart /\ StoreRest
  \/ TransactionEnd /\ StoreRest
  \/ \E p \in Calls : StorePersistImported(p) /\ StoreCallRest
  \/ \E p \in Calls : PersistKeys(p) /\ StoreCallRest
  \/ \E p \in Calls : PersistDeleteOld(p) /\ StoreCallRest
  \/ \E p \in Calls : PersistDeleted(p) /\ StoreCallRest
  \/ \E p \in Calls : PersistPutSingle(p) /\ StoreCallRest
  \/ \E p \in Calls : PersistFinish(p) /\ StoreCallRest
  \/ \E p \in Calls : PersistFail(p) /\ StoreCallRest

SpecStore == InitStore /\ [][NextStore]_vars

\* C10: once meta.hydrated of an atom is true it stays true under every operation
\* (get, getAsync, set, setAsync, transaction, persistAtom, a failed hydration, a
\* failed persist).
C10_HydratedStaysTrue == [][atom.hydrated => atom'.hydrated]_vars

\* a hydrated atom has gone through a failed persist and a failed hydration
C10_Witness ==
  /\ atom.hydrated
  /\ \E p \in Calls : calls[p].pc = "failed"
  /\ \E q \in Calls : calls[q].pc = "done"
  /\ getCall.pc = "done" /\ getCall.result = Thrown

\* C11: for a lazy persisted atom whose storage key holds the value that was last
\* persisted under it (2, as persistAtom stored it), get before any getAsync
\* returns undefined; once a getAsync call has resolved, meta.hydrated is true and
\* get returns the loaded value, which equals the persisted value.
C11_LazyReadThenLoaded ==
  (/\ Declared /\ atom.lazyLoad /\ atom.persisted /\ store.driver
   /\ storage = PersistedSingle(atom.key, Num(2))
   /\ \A p \in Calls : calls[p].pc = "idle")
  => /\ getCall.pc = "idle" => get(atom) = Undefined
     /\ (getCall.pc = "done" /\ getCall.result # Thrown)
          => /\ atom.hydrated
             /\ get(atom) = getCall.result
             /\ DeepEqual(getCall.result, Num(2))

\* C12: get on a lazy atom that has not been hydrated returns undefined, issues no
\* driver operation and starts no load, and leaves the value, the hydrated flag
\* and every other field of the metadata of the atom unchanged.
C12_GetHasNoEffect ==
  [][(Declared /\ atom.lazyLoad /\ ~atom.hydrated /\ StoreGet)
     => /\ get(atom) = Undefined
        /\ atom' = atom
        /\ UNCHANGED <<storage, calls, hyd, getCall>>]_vars

\* C13: a persisted, non-lazy atom is loaded from storage at declaration: after
\* createAtom on a store whose driver holds an entry for the storage key of the
\* atom (the value 2, stored by persistAtom or by driver.put), the value of the
\* atom is the stored value and not the initial argument, and hydrated is true.
C13_EagerLoadAtDeclaration ==
  [][(/\ ~Declared /\ Declared'
      /\ atom'.persisted /\ ~atom'.lazyLoad /\ store.driver
      /\ HasKey(atom'.key))
     => /\ atom'.hydrated
        /\ DeepEqual(atom'.value, Num(2))]_vars

\* the call started last
LastStarted(p) == p = MaxCalls \/ calls[p + 1].pc = "idle"

NothingStored ==
  /\ Declared /\ atom.lazyLoad /\ atom.persisted /\ store.driver
  /\ storage = {}
  /\ \A p \in Calls : calls[p].pc = "idle"

\* C15: getAsync on an unhydrated lazy persisted atom whose storage key has neither
\* a single-value entry nor a chunk entry rejects instead of resolving to an empty
\* or default value, and leaves the atom with hydrated = false and no value.
C15_NotFoundRejects ==
  NothingStored
  => /\ (getCall.pc = "hydrating" /\ hyd.pc = "done") => hyd.result = Thrown
     /\ getCall.pc = "done" => getCall.result = Thrown
     /\ ~atom.hydrated /\ atom.value = Undefined

\* hydrateAtom has found no entry and thrown, and getAsync has not yet resumed
C15_Witness ==
  /\ NothingStored
  /\ getCall.pc = "hydrating" /\ hyd.pc = "done" /\ hyd.result = Thrown

(***************************************************************************)
(* SpecKeys: a second atom B of the same store has an entry in the driver, *)
(* under a key that is any string; atom A is persisted and hydrated.       *)
(***************************************************************************)
\* keys of the second atom: an unrelated one, one that extends the key of A, and
\* one that reads as a chunk of A
OtherKeys ==
  {<<"b">>, AtomId \o <<":">>, AtomId \o ChunkMarker \o PadStart6(NatToStr(0))}

\* the entry written for atom b
OtherEntry(b) == [key |-> StorageKey(b), value |-> serialize(Num(7), FALSE)]

InitKeys ==
  /\ PatchIdle /\ LogIdle
  /\ hasStream = FALSE
  /\ calls = [p \in Calls |-> IdleCall]
  /\ doneOrder = <<>>
  /\ hyd = IdleHydrate
  /\ atom = createAtom(AtomId, Num(1), TRUE, FALSE)
  /\ getCall = IdleGet
  /\ NotifyIdle
  /\ \E b \in OtherKeys :
       /\ store = [driver |-> TRUE, inTransaction |-> FALSE, atoms |-> {AtomId, b}]
       /\ storage = {OtherEntry(b)}

SpecKeys == InitKeys /\ [][NextRoundTrip]_vars

\* the key of the second atom
OtherKey == CHOOSE b \in store.atoms : b # AtomId

\* C16: for distinct atom keys A and B, which are arbitrary strings, persistAtom
\* for A never deletes or overwrites the entry written for B, and hydrateAtom for
\* A never reads the entry of B as one of the chunks of A.
C16_OtherAtomUntouched ==
  /\ OtherEntry(OtherKey) \in storage
  /\ \A i \in 1..Len(hyd.chunkKeys) : hyd.chunkKeys[i] # StorageKey(OtherKey)

(***************************************************************************)
(* SpecChunk: chunkData on a byte buffer, the chunks handed on in any      *)
(* order, then reconstructData.                                            *)
(***************************************************************************)
MaxBytes == 5
MaxChunkSize == 3

RECURSIVE BuffersOfLen(_)
BuffersOfLen(n) ==
  IF n = 0 THEN {<<>>}
  ELSE {<<b>> \o rest : b \in {"x", "y"}, rest \in BuffersOfLen(n - 1)}

FnRest ==
  UNCHANGED <<ppc, oldObj, newObj, patches, patched, persistVars, storeVars, logVars,
               notifyVars>>

InitChunk ==
  /\ EngineIdle /\ PersistIdle /\ StoreIdle /\ LogIdle
  /\ \E L \in 0..MaxBytes, S \in 1..MaxChunkSize :
       \E data \in BuffersOfLen(L) :
         fn = [name |-> "chunkData", pc |-> "input", data |-> data, chunkSize |-> S,
               chunks |-> <<>>, result |-> <<>>]

\* chunks = chunkData(data, {chunkSize})
ChunkData ==
  /\ fn.pc = "input"
  /\ fn' = [fn EXCEPT !.pc = "chunked", !.chunks = chunkData(fn.data, fn.chunkSize)]

\* the caller hands the chunks on in another order
ReorderChunks ==
  /\ fn.pc = "chunked"
  /\ \E i \in 1..(Len(fn.chunks) - 1) :
       fn' = [fn EXCEPT !.chunks = [@ EXCEPT ![i] = fn.chunks[i + 1],
                                             ![i + 1] = fn.chunks[i]]]

\* result = reconstructData(chunks)
ReconstructData ==
  /\ fn.pc = "chunked"
  /\ fn' = [fn EXCEPT !.pc = "reconstructed", !.result = reconstructData(fn.chunks)]

NextChunk ==
  \/ ChunkData /\ FnRest
  \/ ReorderChunks /\ FnRest
  \/ ReconstructData /\ FnRest

SpecChunk == InitChunk /\ [][NextChunk]_vars

\* ceil(L / S)
CeilDiv(L, S) == (L + S - 1) \div S

\* C17: for every byte buffer of length L, 0 included, and every chunk size S > 0,
\* chunkData returns exactly ceil(L/S) chunks with the indices 0..ceil(L/S)-1,
\* each of at most S bytes, and reconstructData of those chunks in any order
\* returns the bytes of the buffer.
C17_ChunkRoundTrip ==
  LET n == CeilDiv(Len(fn.data), fn.chunkSize)
  IN /\ fn.pc \in {"chunked", "reconstructed"}
          => /\ Len(fn.chunks) = n
             /\ {fn.chunks[i].index : i \in 1..Len(fn.chunks)} = 0..(n - 1)
             /\ \A i \in 1..Len(fn.chunks) : Len(fn.chunks[i].data) <= fn.chunkSize
     /\ fn.pc = "reconstructed" => fn.result = fn.data

\* three chunks, the last one short, are put together from the reverse order
C17_Witness ==
  /\ fn.pc = "reconstructed"
  /\ Len(fn.chunks) = 3
  /\ fn.chunks[1].index = 2 /\ fn.chunks[3].index = 0
  /\ Len(fn.chunks[1].data) < fn.chunkSize
  /\ fn.result = fn.data

(***************************************************************************)
(* SpecChunkKey: getChunkKey on a base key and an index, then parseChunkKey *)
(* of the key; and parseChunkKey of a string from anywhere.                *)
(***************************************************************************)
MaxKeyLen == 3

\* the pieces the strings of the model are put together from
KeyPieces == {<<"a">>, <<":">>, ChunkMarker, <<"7">>, PadStart6(<<"1">>), <<LineFeed>>}

RECURSIVE StringsOf(_)
\* the strings made of at most n pieces
StringsOf(n) ==
  IF n = 0 THEN {<<>>}
  ELSE StringsOf(n - 1) \cup {piece \o rest : piece \in KeyPieces, rest \in StringsOf(n - 1)}

ChunkIndices == {0, 7, 12, 999999, 1000000}

InitChunkKey ==
  /\ EngineIdle /\ PersistIdle /\ StoreIdle /\ LogIdle
  /\ \/ \E b \in StringsOf(MaxKeyLen - 1), i \in ChunkIndices :
          fn = [name |-> "getChunkKey", pc |-> "input", baseKey |-> b, index |-> i,
                key |-> <<>>, parsed |-> Null]
     \/ \E str \in StringsOf(MaxKeyLen) :
          fn = [name |-> "parseChunkKey", pc |-> "keyed", baseKey |-> <<>>, index |-> 0,
                key |-> str, parsed |-> Null]

\* key = getChunkKey(baseKey, index)
GetChunkKey ==
  /\ fn.pc = "input"
  /\ fn' = [fn EXCEPT !.pc = "keyed", !.key = getChunkKey(fn.baseKey, fn.index)]

\* parsed = parseChunkKey(key)
ParseChunkKey ==
  /\ fn.pc = "keyed"
  /\ fn' = [fn EXCEPT !.pc = "parsed", !.parsed = parseChunkKey(fn.key)]

NextChunkKey ==
  \/ GetChunkKey /\ FnRest
  \/ ParseChunkKey /\ FnRest

SpecChunkKey == InitChunkKey /\ [][NextChunkKey]_vars

\* str is <baseKey>:chunk:<exactly six decimal digits>
IsChunkKeyForm(str) ==
  /\ Len(str) >= Len(ChunkMarker) + 6
  /\ AllDigits(SubSeq(str, Len(str) - 5, Len(str)))
  /\ SubSeq(str, Len(str) - 5 - Len(ChunkMarker), Len(str) - 6) = ChunkMarker

\* C18: parseChunkKey is the exact inverse of getChunkKey: for every base key b and
\* index i, parseChunkKey(getChunkKey(b, i)) is base key b and index i; and
\* parseChunkKey returns null for every string that is not of the form
\* <baseKey>:chunk:<exactly six decimal digits>.
C18_ParseInvertsChunkKey ==
  fn.pc = "parsed"
  => /\ fn.name = "getChunkKey"
          => fn.parsed = [baseKey |-> fn.baseKey, index |-> fn.index]
     /\ ~IsChunkKeyForm(fn.key) => fn.parsed = Null

(***************************************************************************)
(* SpecPath: pathToString on a path, then stringToPath of the pointer.     *)
(***************************************************************************)
MaxPathLen == 2

\* segments: indices, names, names that hold the separator or the escape
\* character, the empty name, and names made of digits
PathSegments ==
  {NumSeg(0), NumSeg(12), StrSeg(<<"a">>), StrSeg(<<"/">>), StrSeg(<<"~">>),
   StrSeg(<<"~", "1">>), StrSeg(<<"a", "/", "~", "0">>), StrSeg(<<>>),
   StrSeg(<<"0">>), StrSeg(<<"0", "1">>)}

RECURSIVE PathsOfLen(_)
PathsOfLen(n) ==
  IF n = 0 THEN {<<>>}
  ELSE {<<seg>> \o rest : seg \in PathSegments, rest \in PathsOfLen(n - 1)}

InitPath ==
  /\ EngineIdle /\ PersistIdle /\ StoreIdle /\ LogIdle
  /\ \E n \in 0..MaxPathLen :
       \E p \in PathsOfLen(n) :
         fn = [name |-> "pathToString", pc |-> "input", path |-> p, pointer |-> <<>>,
               decoded |-> <<>>]

\* pointer = pathToString(path)
PathToString ==
  /\ fn.pc = "input"
  /\ fn' = [fn EXCEPT !.pc = "encoded", !.pointer = pathToString(fn.path)]

\* decoded = stringToPath(pointer)
StringToPath ==
  /\ fn.pc = "encoded"
  /\ fn' = [fn EXCEPT !.pc = "decoded", !.decoded = stringToPath(fn.pointer)]

NextPath ==
  \/ PathToString /\ FnRest
  \/ StringToPath /\ FnRest

SpecPath == InitPath /\ [][NextPath]_vars

\* C19: stringToPath(pathToString(p)) equals p, segment by segment and with the
\* type of each segment (string or integer) preserved, for every path p, the
\* paths whose string segments hold '/' or '~' included.
C19_PathRoundTrip == fn.pc = "decoded" => fn.decoded = fn.path

\* the kind of a node: scalar, sequence, map, or null/absent
Kind(v) == CASE IsNullish(v) -> "absent"
             [] IsArray(v) -> "sequence"
             [] IsObject(v) -> "map"
             [] OTHER -> "scalar"

\* the op is at the node of the pointer or below it
AtOrBelow(op, pointer) == op.path = pointer \/ StartsWith(op.path, pointer \o <<"/">>)

\* the ops of the diff at the node of the pointer or below it
OpsAtOrBelow(pointer) == SelectSeq(patches, LAMBDA op : AtOrBelow(op, pointer))

\* the one set op the diff of nodes a and b of different kinds is to be
SingleSetWhenKindsDiffer(a, b, path) ==
  Kind(a) # Kind(b)
  => OpsAtOrBelow(pathToString(path)) = <<SetOp(pathToString(path), b)>>

\* C20: when the two nodes compared by generatePatches are of different kinds
\* (scalar, sequence, map, or exactly one of them null/absent), it emits exactly
\* one set op at the path of the node, carrying the new value, and no op for a
\* path below the node; checked at the root and at the children of the root.
C20_KindMismatchIsSingleSet ==
  ppc # "input"
  => /\ SingleSetWhenKindsDiffer(oldObj, newObj, <<>>)
     /\ (IsArray(oldObj) /\ IsArray(newObj))
          => \A i \in 1..Len(oldObj.items) :
               i <= Len(newObj.items)
               => SingleSetWhenKindsDiffer(oldObj.items[i], newObj.items[i],
                                           <<NumSeg(i - 1)>>)
     /\ (IsObject(oldObj) /\ IsObject(newObj))
          => \A i \in 1..Len(oldObj.keys) :
               ObjHas(newObj, oldObj.keys[i])
               => SingleSetWhenKindsDiffer(oldObj.vals[i], ObjGet(newObj, oldObj.keys[i]),
                                           <<StrSeg(oldObj.keys[i])>>)

(***************************************************************************)
(* Applying ops handed in by a caller: applyPatch on one op, applyPatches  *)
(* on a list of ops. The values are the trees of at most MaxApplyNodes     *)
(* nodes and the values holding one byte buffer of MaxBlob bytes.          *)
(***************************************************************************)
MaxApplyNodes == 3
MaxBlob == 3
MaxOps == 2

BlobValues ==
  UNION {{Buf(b), Obj(<< <<"a">> >>, <<Buf(b)>>), Arr(<<Buf(b)>>)} : b \in BuffersOfLen(MaxBlob)}

ApplyValues == UNION {ValuesOfSize(n) : n \in 1..MaxApplyNodes} \cup BlobValues

\* an op the switch of applyPatch has no case for
UnknownOp(path) == [op |-> "move", path |-> path]

WellFormedPaths == {<<>>, <<"/", "a">>, <<"/", "0">>, <<"/", "1">>,
                    <<"/", "a", "/", "0">>, <<"/", "0", "/", "0">>}

\* '~' followed by neither '0' nor '1'
MalformedPaths == {<<"/", "~">>, <<"/", "~", "a">>, <<"/", "a", "~">>}

SingleOps ==
  {SetOp(p, Num(7)) : p \in WellFormedPaths \cup MalformedPaths}
  \cup {DeleteOp(p) : p \in WellFormedPaths \cup MalformedPaths}
  \cup {SpliceOp(p, d, it) : p \in WellFormedPaths \cup MalformedPaths, d \in 0..1,
                             it \in {<<>>, <<Num(7)>>}}
  \cup {BinaryChunkOp(p, off, data) : p \in {<<>>, <<"/", "a">>, <<"/", "0">>, <<"/", "~">>},
                                      off \in 0..MaxBlob,
                                      data \in {<<"z">>, <<"z", "z">>}}
  \cup {UnknownOp(<<"/", "a">>)}

ListOps == {SetOp(<<"/", "a">>, Num(7)), SetOp(<<"/", "~", "a">>, Num(7)),
            DeleteOp(<<"/", "0">>), SpliceOp(<<"/", "0">>, 1, <<Num(7)>>),
            BinaryChunkOp(<<"/", "a">>, 0, <<"z">>), UnknownOp(<<"/", "a">>)}

RECURSIVE OpLists(_)
OpLists(n) == IF n = 0 THEN {<<>>}
              ELSE {<<>>} \cup {<<p>> \o rest : p \in ListOps, rest \in OpLists(n - 1)}

InitApply ==
  /\ ppc = "diffed"
  /\ oldObj \in ApplyValues
  /\ newObj = Undefined
  /\ patches \in OpLists(MaxOps) \cup {<<p>> : p \in SingleOps}
  /\ patched = Undefined
  /\ fn = NoCall
  /\ PersistIdle /\ StoreIdle /\ LogIdle

\* applyPatch(oldObj, op) for the one op handed in
ApplyPatch ==
  /\ ppc = "diffed"
  /\ Len(patches) = 1
  /\ patched' = applyPatch(oldObj, patches[1])
  /\ ppc' = "patched"
  /\ UNCHANGED <<oldObj, newObj, patches, fn>>

NextApply ==
  \/ ApplyPatch /\ PatchRest
  \/ ApplyPatches /\ PatchRest

SpecApply == InitApply /\ [][NextApply]_vars

\* the value after the first i ops of the list, each op applied to the value the
\* one before it left; Thrown from the first failing op on
AfterOps[i \in 0..Len(patches)] ==
  IF i = 0 THEN oldObj
  ELSE IF AfterOps[i - 1] = Thrown THEN Thrown
  ELSE applyPatch(AfterOps[i - 1], patches[i])

\* C21: applyPatches applies the ops in list order, each op to the result of the
\* one before it; when some op fails the call throws and returns no partly
\* patched value; the value passed in is left as it was.
C21_OpsInOrderOrThrow ==
  [][(ppc = "diffed" /\ ppc' = "applied")
       => /\ patched' = AfterOps[Len(patches)]
          /\ (\E i \in 1..Len(patches) : AfterOps[i] = Thrown) => patched' = Thrown
          /\ oldObj' = oldObj]_vars

\* a two-op list whose first op changed the value and whose second op failed
C21_Witness ==
  /\ ppc = "applied"
  /\ Len(patches) = 2
  /\ AfterOps[1] \notin {Thrown, oldObj}
  /\ AfterOps[2] = Thrown
  /\ patched = Thrown

\* the path of the one op handed in, and the node its path without the last
\* segment addresses
OpPath == stringToPath(patches[1].path)
OpContainer == getValueAtPath(oldObj, SubSeq(OpPath, 1, Len(OpPath) - 1))

\* C22: applyPatch with a splice op throws exactly when the container its path
\* addresses is no sequence; when it is one, at the root or nested, the op removes
\* deleteCount items at the index and inserts the given items there.
C22_SpliceNeedsSequence ==
  (ppc = "patched" /\ patches[1].op = "splice" /\ OpPath # <<>>)
    => /\ patched = Thrown <=> ~IsArray(OpContainer)
       /\ IsArray(OpContainer)
            => patched = setValueAtPath(oldObj, SubSeq(OpPath, 1, Len(OpPath) - 1),
                           Arr(ArrSplice(OpContainer.items, SegIndex(OpPath[Len(OpPath)]),
                                         patches[1].deleteCount, patches[1].items)))

\* the byte buffer at the op's path, and the buffer the op leaves there
OpBlob == getValueAtPath(oldObj, OpPath)
PatchedBlob == getValueAtPath(patched, OpPath)

\* C23: applyPatch with a binary-chunk op throws when the node at the path is no
\* byte buffer or when offset plus the data length exceeds the buffer's length;
\* otherwise the buffer at the path keeps its length, holds the data at
\* [offset, offset + data length) and its old bytes everywhere else, and the
\* buffer passed in is not written.
C23_ChunkOverwritesRange ==
  [][(ppc = "diffed" /\ ppc' = "patched" /\ patches[1].op = "binary-chunk")
       => LET offset == patches[1].offset
              data == patches[1].data
          IN IF ~IsBuf(OpBlob) \/ offset + Len(data) > Len(OpBlob.bytes)
             THEN patched' = Thrown
             ELSE /\ patched' # Thrown
                  /\ IsBuf(PatchedBlob')
                  /\ Len(PatchedBlob'.bytes) = Len(OpBlob.bytes)
                  /\ \A i \in 1..Len(OpBlob.bytes) :
                       PatchedBlob'.bytes[i] =
                         IF i > offset /\ i <= offset + Len(data) THEN data[i - offset]
                         ELSE OpBlob.bytes[i]
                  /\ oldObj' = oldObj]_vars

\* a two-byte chunk written into the middle of a nested buffer, one old byte
\* kept on the left
C23_Witness ==
  /\ ppc = "patched"
  /\ patches[1].op = "binary-chunk"
  /\ OpPath # <<>>
  /\ patches[1].offset = 1
  /\ Len(patches[1].data) = 2
  /\ IsBuf(PatchedBlob)
  /\ PatchedBlob.bytes[1] = OpBlob.bytes[1]
  /\ PatchedBlob.bytes[2] = "z"

\* a chunk that reaches past the end of the buffer was refused
C23_WitnessPastEnd ==
  /\ ppc = "patched"
  /\ patches[1].op = "binary-chunk"
  /\ IsBuf(OpBlob)
  /\ patches[1].offset + Len(patches[1].data) > Len(OpBlob.bytes)
  /\ patched = Thrown

\* a path string holding an escape character '~' that neither '0' nor '1' follows
Malformed(str) ==
  \E i \in 1..Len(str) :
    str[i] = "~" /\ (i = Len(str) \/ str[i + 1] \notin {"0", "1"})

\* C24: applyPatch and applyPatches given an op whose path string is malformed
\* throw instead of applying the op to some location.
C24_MalformedPathThrows ==
  (ppc \in {"patched", "applied"} /\ \E i \in 1..Len(patches) : Malformed(patches[i].path))
    => patched = Thrown

(***************************************************************************)
(* Diffing a value against a structurally equal one: a separate copy, with *)
(* the keys of its maps inserted in the same or in the opposite order, for *)
(* the trees of at most MaxSameNodes nodes.                                *)
(***************************************************************************)
MaxSameNodes == 4

RECURSIVE RenameKeys(_)
\* the same tree with the key "b" for the key "0", so that no key is an integer
\* key and the keys are listed in insertion order
RenameKeys(v) ==
  IF IsArray(v) THEN Arr([i \in 1..Len(v.items) |-> RenameKeys(v.items[i])])
  ELSE IF IsObject(v)
       THEN Obj([i \in 1..Len(v.keys) |-> IF v.keys[i] = <<"0">> THEN <<"b">> ELSE v.keys[i]],
                [i \in 1..Len(v.vals) |-> RenameKeys(v.vals[i])])
  ELSE v

RECURSIVE ReverseKeys(_)
\* the copy whose maps got their keys in the opposite order
ReverseKeys(v) ==
  IF IsArray(v) THEN Arr([i \in 1..Len(v.items) |-> ReverseKeys(v.items[i])])
  ELSE IF IsObject(v)
       THEN Obj([i \in 1..Len(v.keys) |-> v.keys[Len(v.keys) + 1 - i]],
                [i \in 1..Len(v.vals) |-> ReverseKeys(v.vals[Len(v.vals) + 1 - i])])
  ELSE v

InitSame ==
  /\ ppc = "input"
  /\ \E v \in UNION {ValuesOfSize(n) : n \in 1..MaxSameNodes} :
       \/ oldObj = v /\ newObj = v
       \/ oldObj = RenameKeys(v) /\ newObj = ReverseKeys(RenameKeys(v))
  /\ patches = <<>>
  /\ patched = Undefined
  /\ fn = NoCall
  /\ PersistIdle /\ StoreIdle /\ LogIdle

SpecSame == InitSame /\ [][PatchNext]_vars

\* C25: generatePatches returns the empty op list whenever its two inputs are
\* structurally equal, so applying its result to the first input gives that
\* input back.
C25_EqualInputsNoOps ==
  (ppc # "input" /\ DeepEqual(oldObj, newObj))
    => /\ patches = <<>>
       /\ ppc = "applied" => patched = oldObj

\* a nested value diffed against a copy whose keys come in another order
C25_Witness ==
  /\ ppc = "applied"
  /\ IsObject(oldObj)
  /\ Len(oldObj.keys) = 2
  /\ newObj # oldObj
  /\ DeepEqual(oldObj, newObj)
  /\ \E i \in 1..2 : IsArray(oldObj.vals[i]) /\ Len(oldObj.vals[i].items) = 1
  /\ patches = <<>>
  /\ patched = oldObj

\* an algorithm compress and decompress have no stream for on this runtime
Unsupported(algorithm) ==
  algorithm # "none" /\ ~(hasStream /\ algorithm \in {"gzip", "deflate"})

\* C26: compress and decompress called with an algorithm the runtime does not
\* support return the input bytes unchanged, so a value persisted with that
\* algorithm is read back by a later hydration with the same algorithm setting.
C26_UnsupportedAlgorithmRoundTrip ==
  /\ \A p \in Calls :
       (calls[p].pc # "idle" /\ Unsupported(calls[p].compression))
         => LET bytes == JsonStringify(calls[p].value)
            IN /\ compress(bytes, calls[p].compression, hasStream) = bytes
               /\ decompress(bytes, calls[p].compression, hasStream) = bytes
  /\ (hyd.pc = "done" /\ calls[LastCall].pc = "done"
        /\ Unsupported(calls[LastCall].compression))
       => DeepEqual(hyd.result, calls[LastCall].value)

\* C27: after every log call the in-memory event list holds at most
\* maxInMemoryEvents events, and they are the events appended last, in ascending
\* contiguous seq order.
C27_RetainsNewest ==
  /\ Len(events) <= logConfig.maxInMemoryEvents
  /\ Len(events) = IF Len(issued) < logConfig.maxInMemoryEvents THEN Len(issued)
                   ELSE logConfig.maxInMemoryEvents
  /\ \A j \in 1..Len(events) : events[j] = issued[Len(issued) - Len(events) + j]
  /\ \A j \in 1..(Len(events) - 1) : events[j + 1].seq = events[j].seq + 1

\* the oldest event was dropped by the third log call
C27_Witness ==
  /\ logConfig.maxInMemoryEvents = MaxRetain
  /\ Len(issued) = MaxRetain + 1
  /\ Len(events) = MaxRetain
  /\ events[1].seq = 2

(***************************************************************************)
(* SpecQuery: log calls on an EventLog that mirrors its events to a        *)
(* driver, and getEvents under each choice of its arguments.               *)
(***************************************************************************)
QuerySeqs == {NoSeq} \cup 0..MaxLog

QueryTypes == {NoType, "dispatch", "transaction-start", "atom-update"}

InitQuery ==
  /\ PatchIdle /\ PersistIdle /\ StoreIdle /\ LogStart
  /\ \E retain \in {MaxRetain, DefaultMaxInMemoryEvents} :
       logConfig = [maxInMemoryEvents |-> retain, persist |-> TRUE, driver |-> TRUE,
                    snapshotInterval |-> DefaultSnapshotInterval]

\* getEvents(startSeq, endSeq, eventType) is called and returns
GetEvents(startSeq, endSeq, eventType) ==
  /\ fn = NoCall
  /\ fn' = [name |-> "getEvents", pc |-> "done", startSeq |-> startSeq, endSeq |-> endSeq,
            eventType |-> eventType, result |-> getEvents(startSeq, endSeq, eventType)]
  /\ UNCHANGED <<ppc, oldObj, newObj, patches, patched, persistVars, storeVars, logVars,
               notifyVars>>

\* the result of a query is dropped when the log goes on
QueryRest ==
  /\ fn' = NoCall
  /\ UNCHANGED <<ppc, oldObj, newObj, patches, patched, hasStream, calls, doneOrder, hyd,
                 storeVars, notifyVars>>

NextQuery ==
  \/ \E ev \in LogInputs : Log(ev) /\ QueryRest
  \/ LogPersisted /\ QueryRest
  \/ LogPutFailed /\ QueryRest
  \/ \E startSeq \in QuerySeqs, endSeq \in QuerySeqs, eventType \in QueryTypes :
       GetEvents(startSeq, endSeq, eventType)

SpecQuery == InitQuery /\ [][NextQuery]_vars

\* C28: getEvents(startSeq, endSeq, type) returns the retained in-memory events e
\* with startSeq <= e.seq <= endSeq (each bound applied only when given) and
\* e.type = type (when given), in ascending seq order; it neither reads nor
\* writes the storage driver, so no dropped event comes back.
C28_GetEventsFiltersRetained ==
  [][(fn'.name = "getEvents" /\ fn' # fn)
       => /\ fn'.result =
               SelectSeq(events,
                         LAMBDA e : /\ (fn'.startSeq # NoSeq => e.seq >= fn'.startSeq)
                                    /\ (fn'.endSeq # NoSeq => e.seq <= fn'.endSeq)
                                    /\ (fn'.eventType # NoType => e.type = fn'.eventType))
          /\ \A i \in 1..(Len(fn'.result) - 1) : fn'.result[i].seq < fn'.result[i + 1].seq
          /\ \A i \in 1..Len(fn'.result) :
               \E j \in 1..Len(events) : events[j] = fn'.result[i]
          /\ storage' = storage
          /\ events' = events]_vars

\* a query from seq 0 on, after the first event was dropped from memory and
\* mirrored to the driver: the event stays out of the result
C28_Witness ==
  /\ fn.name = "getEvents"
  /\ fn.startSeq = 0 /\ fn.endSeq = NoSeq /\ fn.eventType = NoType
  /\ Len(issued) = MaxRetain + 1
  /\ \E e \in storage : e.key = EventKey(1)
  /\ Len(fn.result) = MaxRetain
  /\ fn.result[1].seq = 2

\* the target keys of the events of the history that have seq <= n
TargetsUpTo(history, n) ==
  {history[j].target : j \in {k \in 1..Len(history) : history[k].seq <= n}} \ {NoKey}

SnapshotKeySet(s) == {s.atomKeys[i] : i \in 1..Len(s.atomKeys)}

\* C29: the key set of every snapshot is the set of the target keys of all
\* events appended with seq <= the snapshot's seq, and a snapshot is not
\* modified after it was created.
C29_SnapshotKeysCoverHistory ==
  [][/\ \A i \in 1..Len(snapshots') :
          SnapshotKeySet(snapshots'[i]) = TargetsUpTo(issued', snapshots'[i].seq)
     /\ \/ snapshots' = <<>>
        \/ /\ Len(snapshots') >= Len(snapshots)
           /\ \A i \in 1..Len(snapshots) : snapshots'[i] = snapshots[i]]_vars

\* C30: reconstruct with a targetSeq greater than the seq of the latest retained
\* event does not fail and returns the state and the key set that reconstruct at
\* the latest retained seq returns.
C30_TargetPastLatest ==
  (recon.called /\ events # <<>> /\ recon.targetSeq # NoSeq /\ recon.targetSeq > LatestSeq)
    => LET atLatest == reconstruct(LatestSeq, recon.filter, recon.includeState)
       IN /\ recon.state # Thrown
          /\ recon.state = atLatest.state
          /\ recon.atomKeys = atLatest.atomKeys

\* a target one past the latest seq, with a snapshot as base and an update
\* replayed on top of it
C30_Witness ==
  /\ recon.called /\ recon.includeState
  /\ LatestSeq = MaxReplay
  /\ recon.targetSeq = MaxReplay + 1
  /\ recon.base # NoSnapshot
  /\ recon.fetched # <<>>
  /\ recon.atomKeys # <<>>

(***************************************************************************)
(* SpecDriver and SpecTtl: put, get, has, delete, keys and clear calls on  *)
(* one MemoryDriver with the default serialization. Every call reads the   *)
(* clock                                                                   *)
(* (Date.now(), in milliseconds) at or after the reading of the call       *)
(* before it; fn keeps the last call, its clock reading and result, and    *)
(* for every key what was last put and when.                               *)
(***************************************************************************)
MsPerSecond == 1000
MaxTicks == 4
MaxTtl == 1
\* options.ttl is left out
NoTtl == -1

\* the clock readings: every half second up to MaxTicks of them
Instants == {(i * MsPerSecond) \div 2 : i \in 0..MaxTicks}

Ttls == {NoTtl} \cup 0..MaxTtl

DriverKeys == {<<"a">>, <<"a", "b">>}

Prefixes == {<<>>, <<"a">>, <<"a", "b">>, <<"b">>}

PutValues == {Num(1), Null, Buf(<<"1">>)}

\* entry.expiresAt && entry.expiresAt < Date.now()
Expired(e, at) == "expiresAt" \in DOMAIN e /\ e.expiresAt # 0 /\ e.expiresAt < at

\* the storage after MemoryDriver.put(key, value, {ttl}) at the clock reading at
MemoryPut(key, value, ttl, at) ==
  IF ttl # NoTtl /\ ttl # 0
  THEN {e \in storage : e.key # key}
       \cup {[key |-> key, value |-> serialize(value, FALSE),
              expiresAt |-> at + ttl * MsPerSecond]}
  ELSE DriverPut(key, value, FALSE)

\* MemoryDriver.get(key) at the clock reading at: the result and the storage left
MemoryGet(key, at) ==
  IF ~HasKey(key) THEN [result |-> Null, storage |-> storage]
  ELSE LET entry == CHOOSE e \in storage : e.key = key
       IN IF Expired(entry, at) THEN [result |-> Null, storage |-> DriverDelete(key)]
          ELSE [result |-> deserialize(entry.value, FALSE), storage |-> storage]

\* MemoryDriver.has(key) at the clock reading at
MemoryHas(key, at) ==
  IF ~HasKey(key) THEN [result |-> FALSE, storage |-> storage]
  ELSE LET entry == CHOOSE e \in storage : e.key = key
       IN IF Expired(entry, at) THEN [result |-> FALSE, storage |-> DriverDelete(key)]
          ELSE [result |-> TRUE, storage |-> storage]

\* MemoryDriver.keys(prefix): every key when the prefix is left out or empty
MemoryKeys(prefix) ==
  IF prefix = <<>> THEN StoredKeys ELSE {k \in StoredKeys : StartsWith(k, prefix)}

\* nothing is put under a key
NoPut == [present |-> FALSE, value |-> Undefined, ttl |-> NoTtl, at |-> 0]

InitDriver ==
  /\ EngineIdle /\ PersistIdle /\ StoreIdle /\ LogIdle
  /\ fn = [name |-> "new", pc |-> "done", at |-> 0, key |-> NoKey, prefix |-> <<>>,
           result |-> Undefined, puts |-> [k \in DriverKeys |-> NoPut]]

DriverRest == UNCHANGED <<ppc, oldObj, newObj, patches, patched, hasStream, calls, doneOrder,
                          hyd, storeVars, logVars, notifyVars>>

Later(at) == fn.pc = "done" /\ at >= fn.at

MemoryDriverPut(key, value, ttl, at) ==
  /\ Later(at)
  /\ storage' = MemoryPut(key, value, ttl, at)
  /\ fn' = [fn EXCEPT !.name = "put", !.at = at, !.key = key, !.result = Undefined,
                      !.puts[key] = [present |-> TRUE, value |-> value, ttl |-> ttl, at |-> at]]

MemoryDriverGet(key, at) ==
  /\ Later(at)
  /\ storage' = MemoryGet(key, at).storage
  /\ fn' = [fn EXCEPT !.name = "get", !.at = at, !.key = key,
                      !.result = MemoryGet(key, at).result]

MemoryDriverHas(key, at) ==
  /\ Later(at)
  /\ storage' = MemoryHas(key, at).storage
  /\ fn' = [fn EXCEPT !.name = "has", !.at = at, !.key = key,
                      !.result = MemoryHas(key, at).result]

MemoryDriverDelete(key, at) ==
  /\ Later(at)
  /\ storage' = DriverDelete(key)
  /\ fn' = [fn EXCEPT !.name = "delete", !.at = at, !.key = key, !.result = Undefined,
                      !.puts[key] = NoPut]

MemoryDriverKeys(prefix, at) ==
  /\ Later(at)
  /\ storage' = storage
  /\ fn' = [fn EXCEPT !.name = "keys", !.at = at, !.prefix = prefix,
                      !.result = MemoryKeys(prefix)]

MemoryDriverClear(at) ==
  /\ Later(at)
  /\ storage' = {}
  /\ fn' = [fn EXCEPT !.name = "clear", !.at = at, !.result = Undefined,
                      !.puts = [k \in DriverKeys |-> NoPut]]

\* the calls without a time-to-live, on two keys, the clock standing still
NextDriver ==
  \/ \E key \in DriverKeys, value \in PutValues :
       MemoryDriverPut(key, value, NoTtl, 0) /\ DriverRest
  \/ \E key \in DriverKeys : MemoryDriverGet(key, 0) /\ DriverRest
  \/ \E key \in DriverKeys : MemoryDriverHas(key, 0) /\ DriverRest
  \/ \E key \in DriverKeys : MemoryDriverDelete(key, 0) /\ DriverRest
  \/ \E prefix \in Prefixes : MemoryDriverKeys(prefix, 0) /\ DriverRest
  \/ MemoryDriverClear(0) /\ DriverRest

SpecDriver == InitDriver /\ [][NextDriver]_vars

\* the calls on one key as time passes, with and without a time-to-live
NextTtl ==
  \/ \E value \in {Num(1), Num(12)}, ttl \in Ttls, at \in Instants :
       MemoryDriverPut(<<"a">>, value, ttl, at) /\ DriverRest
  \/ \E at \in Instants : MemoryDriverGet(<<"a">>, at) /\ DriverRest
  \/ \E at \in Instants : MemoryDriverHas(<<"a">>, at) /\ DriverRest
  \/ \E at \in Instants : MemoryDriverDelete(<<"a">>, at) /\ DriverRest

SpecTtl == InitDriver /\ [][NextTtl]_vars

\* C31: MemoryDriver refines a key-value map: after any put, delete and clear
\* calls get(k) returns the value last put for k, or null when none is there;
\* has(k) is true exactly when get(k) is not null; keys(prefix) returns exactly
\* the stored keys that start with the prefix.
C31_RefinesKeyValueMap ==
  /\ fn.name = "get"
       => fn.result = IF fn.puts[fn.key].present THEN fn.puts[fn.key].value ELSE Null
  /\ fn.name = "has" => (fn.result <=> MemoryGet(fn.key, fn.at).result # Null)
  /\ fn.name = "keys"
       => fn.result = {k \in DriverKeys : fn.puts[k].present /\ StartsWith(k, fn.prefix)}

\* the milliseconds between the last put under the key of the last call and
\* that call
Elapsed == fn.at - fn.puts[fn.key].at

\* C32: an entry put with ttl = n seconds is present (has is true, get returns
\* the value) until n seconds have elapsed and absent (has is false, get returns
\* null) afterwards, and the first get or has after expiry removes the entry from
\* the storage. The instant at which exactly n seconds have elapsed is left open.
C32_TtlExpiry ==
  (fn.name \in {"get", "has"} /\ fn.puts[fn.key].present /\ fn.puts[fn.key].ttl # NoTtl)
    => LET n == fn.puts[fn.key].ttl
       IN /\ Elapsed < n * MsPerSecond
               => /\ HasKey(fn.key)
                  /\ fn.result = IF fn.name = "has" THEN TRUE ELSE fn.puts[fn.key].value
          /\ Elapsed > n * MsPerSecond
               => /\ ~HasKey(fn.key)
                  /\ fn.result = IF fn.name = "has" THEN FALSE ELSE Null


(***************************************************************************)
(* Subscriptions, the scheduler and transactions of the store              *)
(* (packages/core): one atom with the default equality, two listeners, a   *)
(* store with no driver and no devtools bridge, one transaction call.      *)
(* A step is a piece of synchronous code; the flush microtask runs between *)
(* two of them. A notification runs to its end before anything else but    *)
(* what the listeners do themselves.                                       *)
(***************************************************************************)
\* updateQueue.findIndex(update => update.atom.key === atom.key), from 1, 0 for none
findIndex(queue, key) ==
  IF \E i \in 1..Len(queue) : queue[i].key = key
  THEN CHOOSE i \in 1..Len(queue) : queue[i].key = key /\ \A j \in 1..(i - 1) : queue[j].key # key
  ELSE 0

\* the queue after schedule(atom, value, previousValue): an update pending for the
\* atom takes the new value and keeps its previous value
schedule(queue, key, value, previousValue) ==
  IF findIndex(queue, key) > 0
  THEN [queue EXCEPT ![findIndex(queue, key)] =
          [key |-> key, value |-> value, previousValue |-> queue[findIndex(queue, key)].previousValue]]
  ELSE Append(queue, [key |-> key, value |-> value, previousValue |-> previousValue])

\* Scheduler.schedule: the update is queued and, unless a flush is scheduled, a
\* flush microtask is queued
Schedule(key, value, previousValue) ==
  /\ updateQueue' = schedule(updateQueue, key, value, previousValue)
  /\ isScheduled' = TRUE
  /\ microtasks' = IF isScheduled THEN microtasks ELSE microtasks + 1

\* the listeners of the set of an atom, in the order of their insertion
Subscribed(l) == \E i \in 1..Len(subscriptions) : subscriptions[i] = l

\* the unsubscribe function returned to listener l: currentListeners.delete(listener)
unsubscribe(subs, l) == SelectSeq(subs, LAMBDA x : x # l)

\* SubscriptionManager.notify with one update: the listeners are copied, and the
\* copy is what the loop goes through
notify(update) ==
  IF subscriptions = <<>> THEN NoRound
  ELSE [listeners |-> subscriptions, value |-> update.value,
        previousValue |-> update.previousValue]

\* Scheduler.flush with the notify callback of the store (one atom: one update)
FlushQueue ==
  /\ updateQueue' = <<>>
  /\ isScheduled' = FALSE
  /\ round' = IF updateQueue = <<>> THEN NoRound ELSE notify(updateQueue[1])

NoNotification == round = NoRound

\* the callback of the transaction has not completed
InCallback == txn.pc \in {"callback", "await"}

\* store.subscribe(atom, listener); a listener whose unsubscribe function was
\* called is not subscribed again
Subscribe(l) ==
  /\ NoNotification /\ l \notin heard.gone
  /\ subscriptions' = IF Subscribed(l) THEN subscriptions ELSE Append(subscriptions, l)
  /\ UNCHANGED <<updateQueue, isScheduled, microtasks, round, txn, heard, storeVars, persistVars>>

\* the unsubscribe function of listener l is called by the code that subscribed
Unsubscribe(l) ==
  /\ NoNotification /\ (Subscribed(l) \/ l \in heard.gone)
  /\ subscriptions' = unsubscribe(subscriptions, l)
  /\ heard' = [heard EXCEPT !.gone = @ \cup {l}]
  /\ UNCHANGED <<updateQueue, isScheduled, microtasks, round, txn, storeVars, persistVars>>

\* store.set(atom, value) with a new value, outside the transaction
NotifySet(value) ==
  /\ NoNotification /\ txn.pc = "idle"
  /\ StoreWrite(value, "set")
  /\ Schedule(atom.id, value, atom.value)
  /\ UNCHANGED <<subscriptions, round, txn, heard>>

\* store.set(atom, value) with the value the atom has
NotifySetSame(value) ==
  /\ NoNotification /\ txn.pc \in {"idle", "callback"}
  /\ StoreSetSame(value)
  /\ UNCHANGED notifyVars

\* the flush microtask runs: never inside synchronous code
Flush ==
  /\ NoNotification /\ microtasks > 0 /\ txn.pc # "callback"
  /\ microtasks' = microtasks - 1
  /\ FlushQueue
  /\ UNCHANGED <<subscriptions, txn, heard, storeVars, persistVars>>

\* the next listener of the copy is called with (newValue, previousValue); its
\* body calls the unsubscribe functions of the listeners in `removed`
ListenerCalled(removed) ==
  /\ round.listeners # <<>>
  /\ LET l == Head(round.listeners)
     IN /\ heard' = [heard EXCEPT !.listener = l, !.value = round.value,
                                  !.previousValue = round.previousValue,
                                  !.inCallback = InCallback,
                                  !.unsubscribed = l \in heard.gone,
                                  !.gone = @ \cup removed,
                                  !.times[l] = IF txn.pc = "idle" THEN 0
                                               ELSE IF @ = 0 THEN 1 ELSE 2]
        /\ round' = IF Tail(round.listeners) = <<>> THEN NoRound
                    ELSE [round EXCEPT !.listeners = Tail(@)]
        /\ subscriptions' = SelectSeq(subscriptions, LAMBDA x : x \notin removed)
  /\ UNCHANGED <<updateQueue, isScheduled, microtasks, txn, storeVars, persistVars>>

\* store.transaction(callback) is called and calls the callback
Transaction ==
  /\ NoNotification /\ txn.pc = "idle"
  /\ TransactionStart
  /\ txn' = [pc |-> "callback", clean |-> updateQueue = <<>> /\ microtasks = 0,
             awaited |-> FALSE, updated |-> FALSE,
             subscribers |-> {l \in Listeners : Subscribed(l)}]
  /\ UNCHANGED <<updateQueue, isScheduled, microtasks, subscriptions, round, heard>>

\* the callback calls store.set(atom, value) with a new value
CallbackSet(value) ==
  /\ txn.pc = "callback"
  /\ StoreWrite(value, "set")
  /\ Schedule(atom.id, value, atom.value)
  /\ txn' = [txn EXCEPT !.updated = TRUE]
  /\ UNCHANGED <<subscriptions, round, heard>>

\* the callback awaits asynchronous work
CallbackAwait ==
  /\ txn.pc = "callback"
  /\ txn' = [txn EXCEPT !.pc = "await", !.awaited = TRUE]
  /\ UNCHANGED <<updateQueue, isScheduled, microtasks, subscriptions, round, heard,
                 storeVars, persistVars>>

\* the work the callback awaited is done and the callback goes on
CallbackResumed ==
  /\ NoNotification /\ txn.pc = "await"
  /\ txn' = [txn EXCEPT !.pc = "callback"]
  /\ UNCHANGED <<updateQueue, isScheduled, microtasks, subscriptions, round, heard,
                 storeVars, persistVars>>

\* the callback completes; transaction is still awaiting its promise
CallbackReturned ==
  /\ txn.pc = "callback"
  /\ txn' = [txn EXCEPT !.pc = "returned"]
  /\ UNCHANGED <<updateQueue, isScheduled, microtasks, subscriptions, round, heard,
                 storeVars, persistVars>>

\* transaction goes on after await callback(): flushSync, then inTransaction = false
TransactionFlushSync ==
  /\ NoNotification /\ txn.pc = "returned"
  /\ TransactionEnd
  /\ IF Len(updateQueue) > 0 THEN FlushQueue
     ELSE UNCHANGED <<updateQueue, isScheduled, round>>
  /\ txn' = [txn EXCEPT !.pc = "done"]
  /\ UNCHANGED <<microtasks, subscriptions, heard>>

InitNotify ==
  /\ PatchIdle /\ PersistIdle /\ StoreIdle /\ LogIdle

NotifyRest == UNCHANGED <<patchVars, logVars>>

NextNotify ==
  \/ \E l \in Listeners : Subscribe(l) /\ NotifyRest
  \/ \E l \in Listeners : Unsubscribe(l) /\ NotifyRest
  \/ \E value \in StoreValues : NotifySet(value) /\ NotifyRest
  \/ \E value \in StoreValues : NotifySetSame(value) /\ NotifyRest
  \/ Flush /\ NotifyRest
  \/ \E removed \in SUBSET Listeners : ListenerCalled(removed) /\ NotifyRest
  \/ Transaction /\ NotifyRest
  \/ \E value \in StoreValues : CallbackSet(value) /\ NotifyRest
  \/ CallbackAwait /\ NotifyRest
  \/ CallbackResumed /\ NotifyRest
  \/ CallbackReturned /\ NotifyRest
  \/ TransactionFlushSync /\ NotifyRest

SpecNotify == InitNotify /\ [][NextNotify]_vars

\* C33: while the callback of store.transaction has not completed, also when it
\* awaits between its set calls, no listener is called; and once the transaction
\* has ended, every listener subscribed throughout it has been called exactly
\* once if the callback updated the atom. The transaction starts with no update
\* pending.
C33_TransactionNotifiesOnceAfter ==
  txn.clean =>
    /\ ~heard.inCallback
    /\ (txn.pc = "done" /\ NoNotification /\ txn.updated)
         => \A l \in txn.subscribers : Subscribed(l) => heard.times[l] = 1

\* C34: a listener is never called with a new value equal, under the equality
\* of the atom, to the previous value of the same call.
C34_NotifiedOnlyOnChange ==
  heard.listener # NoListener => ~areValuesEqual(heard.value, heard.previousValue)

\* C35: a listener whose unsubscribe function has been called is not called
\* again, whether by a later notification, by the flush of an update scheduled
\* before, or by a notification in progress.
C35_NoCallAfterUnsubscribe ==
  heard.listener # NoListener => ~heard.unsubscribed


\* C36: a write made to a lazy atom while a getAsync hydration of it is awaiting
\* the import or the driver is not lost: when that getAsync completes, the value
\* of the atom is still the one written. An atom on which getAsync is hydrating
\* is marked hydrated only by a set or setAsync made since the call began.
C36_WriteSurvivesLazyLoad ==
  [][(getCall.pc = "hydrating" /\ getCall'.pc = "done" /\ atom.lazyLoad /\ atom.hydrated)
       => atom'.value = atom.value]_vars


\* the log call of the event with sequence number c.seq resumes in this step
\* after its mirror write has landed
MirrorLanded(c) ==
  /\ c \in logCalls /\ c.pc = "persist" /\ c \notin logCalls'
  /\ ~HasKey(EventKey(c.seq)) /\ EventKey(c.seq) \in {e.key : e \in storage'}

\* C37: also when log calls overlap, the call of an event whose seq is a multiple
\* of snapshotInterval creates a snapshot when it resumes after its mirror write,
\* the seq of that snapshot is the seq of the event, and the call of any other
\* event creates none.
C37_OverlappingCallsSnapshot ==
  [][\A c \in logCalls :
       MirrorLanded(c)
         => IF c.seq % logConfig.snapshotInterval = 0
            THEN /\ Len(snapshots') = Len(snapshots) + 1
                 /\ snapshots'[Len(snapshots')].seq = c.seq
            ELSE snapshots' = snapshots]_vars


\* the keys and the state that the replay of all retained events of seq 1..t from
\* the beginning gives
ReplayedFromStart(t, atomKeys) ==
  ReplayFrom(SelectSeq(events, LAMBDA e : e.seq <= t), atomKeys, TRUE)

KeySet(keys) == {keys[i] : i \in 1..Len(keys)}

\* C38: while every event logged is still held in memory, the state map of
\* getStateAt(t) (reconstruct with includeState) and the key set of reconstruct(t)
\* are those of the replay of the events 1..t from the beginning, for every target
\* t >= 1, whatever the snapshot interval and the snapshots are.
C38_SnapshotsKeepTheAnswer ==
  (recon.called /\ Len(events) = Len(issued) /\ recon.targetSeq # NoSeq /\ recon.targetSeq >= 1)
    => LET fromStart == ReplayedFromStart(recon.targetSeq, recon.filter)
       IN /\ recon.includeState => recon.state = fromStart.state
          /\ KeySet(recon.atomKeys) = KeySet(fromStart.keys)


(***************************************************************************)
(* SpecHydrate: persistAtom calls and one hydrateAtom call on the same     *)
(* key, interleaved at every driver operation, with a serializer that      *)
(* stores an ArrayBuffer as it is and no compression. A persistAtom call   *)
(* that fails midway leaves some of its chunks behind.                     *)
(***************************************************************************)
InitHydrate ==
  /\ PatchIdle /\ PersistIdle /\ LogIdle
  /\ atom = createAtom(AtomId, Num(1), TRUE, FALSE)
  /\ store = [driver |-> TRUE, inTransaction |-> FALSE, atoms |-> {AtomId}]
  /\ getCall = IdleGet
  /\ NotifyIdle

NextHydrate ==
  \/ \E p \in Calls, v \in PersistValues, threshold \in 1..MaxThreshold :
       PersistStart(p, v, threshold, "none", TRUE) /\ PersistRest
  \/ \E p \in Calls : PersistKeys(p) /\ PersistRest
  \/ \E p \in Calls : PersistDeleteOld(p) /\ PersistRest
  \/ \E p \in Calls : PersistDeleted(p) /\ PersistRest
  \/ \E p \in Calls : PersistPutChunk(p) /\ PersistRest
  \/ \E p \in Calls : PersistDeleteSingle(p) /\ PersistRest
  \/ \E p \in Calls : PersistPutSingle(p) /\ PersistRest
  \/ \E p \in Calls : PersistFinish(p) /\ PersistRest
  \/ \E p \in Calls : PersistFail(p) /\ PersistRest
  \/ LastCall # 0 /\ HydrateStart("none", TRUE) /\ PersistRest
  \/ HydrateKeys /\ PersistRest
  \/ HydrateGetChunk /\ PersistRest
  \/ HydrateReconstruct /\ PersistRest
  \/ HydrateGetSingle /\ PersistRest
  \/ HydrateFail /\ PersistRest

SpecHydrate == InitHydrate /\ [][NextHydrate]_vars

\* the persistAtom call of slot p has put every entry of its value
StoredInFull(p) == calls[p].pc \in {"finish", "done"}

\* C39: a hydrateAtom call that finds chunk entries under its key, while it runs
\* interleaved with persistAtom calls or on a storage that lacks some chunks of
\* a value, fails or returns a value that one of the persistAtom calls stored in
\* full: never one put together from some of the chunks of a write or from the
\* chunks of two writes.
C39_HydrateReturnsAStoredValue ==
  (hyd.pc = "done" /\ hyd.chunkKeys # <<>> /\ hyd.result # Thrown)
    => \E p \in Calls : StoredInFull(p) /\ DeepEqual(hyd.result, calls[p].value)


\* the keys of the driver under which events and snapshots are stored
LogEntryKeys == {k \in StoredKeys : StartsWith(k, EventPrefix) \/ StartsWith(k, SnapshotPrefix)}

\* C40: an EventLog configured with a driver and persist = false writes nothing
\* to the driver: after any sequence of log calls the driver holds no event entry
\* and no snapshot entry.
C40_NoDriverWriteWithoutPersist ==
  (logConfig.driver /\ ~logConfig.persist) => LogEntryKeys = {}

====
